---- MODULE Spec2Model ----
(***************************************************************************)
(* State-machine model of the SwiftBasket Django application               *)
(* (ecommerce/online_store): session and persisted carts, the login-time   *)
(* cart merge, checkout, reviews and the password-reset tokens.            *)
(*                                                                         *)
(* Database tables are variables; every web handler is one action that     *)
(* models the whole handler.  The handlers whose interleavings matter are  *)
(* additionally split at their database statements (SpecReview).           *)
(***************************************************************************)
EXTENDS Integers, Sequences, FiniteSets, TLC

(***************************************************************************)
(* Bounds and domains                                                      *)
(***************************************************************************)
\* largest quantity a cart line may reach in the model
MaxQty == 2
\* largest number of Order rows
MaxOrders == 2
\* number of reset tokens issued
MaxTokens == 2
\* last minute of the clock
MaxTime == 6
\* timedelta(minutes=5) in generate_reset_url
ExpiryMinutes == 5

\* registered users: b1 registered through register_buyer, v1 and v2
\* through register_vendor
Users == {"b1", "v1", "v2"}
\* StoreForm.store_name
StoreNames == {"s", "t"}
Anonymous == "anonymous"
\* browser sessions; the shop specifications follow one browser
Sessions == {"s1", "s2"}
Browsers == {"s1"}
\* requests in flight in the interleaved specification
Requests == {"r1", "r2"}
\* primary keys (UUIDs) of Product rows, in the order querysets return them
ProductSeq == <<"p1", "p2">>
ProductIds == {ProductSeq[i] : i \in 1 .. Len(ProductSeq)}
\* a POSTed item string that is not a UUID
BadId == "not-a-uuid"
\* keys a session cart can hold: add_item_to_cart stores any non-empty string
CartKeys == ProductIds \cup {BadId}
\* the (product_name, price) pairs vendors submit in the product form
Catalogue == {<<"x", 1>>, <<"y", 2>>}
\* POST field values are strings: an integer literal, a non-numeric string,
\* or no field at all
NonNumeric == "abc"
Missing == "missing"
IntRange == -1 .. MaxQty
PostQuantities == {ToString(i) : i \in IntRange} \cup {NonNumeric, Missing}

VARIABLES
    auth_user,   \* auth_user rows: the registered usernames
    auth_group,  \* auth_group rows with auth_group_permissions, by name
    groups,      \* auth_user_groups: user -> set of group names
    tweet_instance, \* Tweet._instance of the server process
    store,       \* Store rows, by owner
    store_name,  \* owner -> store_name of the Store rows of that owner
    product,     \* Product rows, by product_id
    carts,       \* Cart rows: the users that have one
    cartItem,    \* CartItem rows: user -> product_id -> quantities of the rows
    orders,      \* Order rows with their OrderItem rows, in creation order
    review,      \* Review rows: user -> product_id -> is_verified of the rows
    sessUser,    \* session -> logged-in user or Anonymous
    sessCart,    \* session -> request.session["cart"] (0 = key absent)
    sessReset,   \* session -> request.session["user"], ["token"]
    resetToken,  \* ResetToken rows
    password,    \* user -> the password set_password stored
    now,         \* datetime.now(), in minutes
    issued,      \* how many tokens secrets.token_urlsafe has produced
    consumed,    \* history: the raw tokens reset_password has consumed
    req,         \* request in flight -> its program counter and locals
    last         \* the last request handled and its outcome

resetVars == <<resetToken, password, now, issued, consumed>>
authVars == <<auth_user, auth_group, groups>>

vars == <<auth_user, auth_group, tweet_instance, groups, store, store_name, product, carts, cartItem, orders, review,
          sessUser, sessCart, sessReset, resetToken, password, now, issued,
          consumed, req, last>>

(***************************************************************************)
(* Helpers                                                                 *)
(***************************************************************************)
NoProduct(st) == [state |-> st, store |-> "-", product_name |-> "-", price |-> 0]
Live(p) == p \in ProductIds /\ product[p].state = "live"
EmptySessionCart == [k \in CartKeys |-> 0]
NoHandshake == [user |-> "-", token |-> "-"]
Idle == [pc |-> "idle", session |-> "-", user |-> "-", pid |-> "-",
         name |-> "-", method |-> "-", has_purchased |-> FALSE,
         quantity |-> 0, snapshot |-> <<>>, total_price |-> 0, order |-> 0]
NoItems == [u \in Users |-> [p \in ProductIds |-> <<>>]]
Response(op, s, u, pid, status) ==
    [op |-> op, session |-> s, user |-> u, pid |-> pid, status |-> status]

\* all orderings of a finite set, as sequences
RECURSIVE Perms(_)
Perms(S) ==
    IF S = {} THEN {<<>>}
    ELSE UNION {{<<x>> \o t : t \in Perms(S \ {x})} : x \in S}

\* Python int(v) on a POST string: the value of an integer literal;
\* ValueError (TypeError for None) on anything else
IsInt(v) == \E i \in IntRange : ToString(i) = v
int(v) == CHOOSE i \in IntRange : ToString(i) = v

\* the groups register_buyer and register_vendor name
GroupNames == {"Buyers", "Vendors"}

\* register_vendor: perm_strings
VendorPermissions ==
    {"view_product", "add_product", "change_product", "delete_product",
     "view_store", "add_store", "change_store", "delete_store"}

\* no auth_group row of that name
NoGroup == [exists |-> FALSE, permissions |-> {}]

\* as if the views asked for a logged-in user only
has_perm_authenticated(u) == u \in Users

\* user.has_perm(...) for one of the eight store/product permissions: a
\* registered user has the permissions of its groups, and register_vendor
\* sets the eight together
has_perm(u) ==
    /\ u \in auth_user
    /\ \E g \in groups[u] : auth_group[g].permissions = VendorPermissions


(***************************************************************************)
(* CartItem.objects.get_or_create(cart, items, defaults) followed by the   *)
(* handler's "if not created: quantity += q; save()".  rows is the list of *)
(* CartItem rows of one (cart, product) pair.                              *)
(***************************************************************************)
\* as if the handler stored the posted quantity over the row's quantity
AddToRowsOverwrite(rows, q) ==
    IF Len(rows) <= 1 THEN [raised |-> FALSE, rows |-> <<q>>]
    ELSE [raised |-> TRUE, rows |-> rows]

AddToRows(rows, q) ==
    IF Len(rows) = 0 THEN [raised |-> FALSE, rows |-> <<q>>]
    ELSE IF Len(rows) = 1 THEN [raised |-> FALSE, rows |-> <<rows[1] + q>>]
    ELSE [raised |-> TRUE, rows |-> rows]       \* MultipleObjectsReturned

RowQty(rows) == IF Len(rows) = 0 THEN 0 ELSE rows[1]

(***************************************************************************)
(* add_item_to_cart                                                        *)
(***************************************************************************)
\* as if the posted integer were taken as it is
PostedQuantityUnclamped(qv) == IF IsInt(qv) THEN int(qv) ELSE 1

\* add_item_db_cart: int(quantity), 1 when it is below 1 or no integer
PostedQuantity(qv) == IF IsInt(qv) /\ int(qv) >= 1 THEN int(qv) ELSE 1

\* cart_views.add_item_db_cart: the authenticated branch
add_item_db_cart(s, item, qv) ==
    LET u == sessUser[s]
        quantity == PostedQuantity(qv)
        r == AddToRows(cartItem[u][item], quantity)
    IN  /\ u # Anonymous
        /\ IF item = BadId
           THEN \* get_object_or_404 -> ValidationError on a malformed UUID
                /\ last' = Response("add_item", s, u, item, "error")
                /\ UNCHANGED <<carts, cartItem>>
           ELSE IF ~Live(item)
           THEN /\ last' = Response("add_item", s, u, item, "404")
                /\ UNCHANGED <<carts, cartItem>>
           ELSE /\ RowQty(cartItem[u][item]) + quantity <= MaxQty
                /\ carts' = carts \cup {u}
                /\ IF r.raised
                   THEN /\ last' = Response("add_item", s, u, item, "error")
                        /\ UNCHANGED cartItem
                   ELSE /\ last' = Response("add_item", s, u, item, "ok")
                        /\ cartItem' = [cartItem EXCEPT ![u][item] = r.rows]
        /\ UNCHANGED <<resetVars, sessReset, req, authVars, tweet_instance, store, store_name, product, orders, review, sessUser, sessCart>>

\* as if only a quantity that is no integer were refused
QuantityRefusedNotInt(qv) == qv # Missing /\ ~IsInt(qv)

\* int(request.POST.get("quantity", 1)) raises ValueError, or the
\* quantity is below 1
QuantityRefused(qv) == qv # Missing /\ (~IsInt(qv) \/ int(qv) < 1)

\* cart_views.add_item_to_cart: the anonymous branch
add_item_session_cart(s, item, qv) ==
    LET quantity == IF qv = Missing THEN 1 ELSE int(qv)
    IN  /\ sessUser[s] = Anonymous
        /\ IF QuantityRefused(qv) \/ item = Missing
           THEN /\ last' = Response("add_item", s, Anonymous, item, "400")
                /\ UNCHANGED sessCart
           ELSE /\ sessCart[s][item] + quantity <= MaxQty
                /\ sessCart' = [sessCart EXCEPT ![s][item] = @ + quantity]
                /\ last' = Response("add_item", s, Anonymous, item, "ok")
        /\ UNCHANGED <<resetVars, sessReset, req, authVars, tweet_instance, store, store_name, product, carts, cartItem, orders, review, sessUser>>

add_item_to_cart(s, item, qv) ==
    \/ add_item_db_cart(s, item, qv)
    \/ add_item_session_cart(s, item, qv)

(***************************************************************************)
(* merge_cart, connected to user_logged_in                                 *)
(***************************************************************************)
\* the loop of merge_cart over session_cart.items(), in the order keys.
\* Product.objects.get(pk=...) raises ValidationError for a key that is not
\* a UUID; only Product.DoesNotExist is caught.
RECURSIVE MergeLoop(_, _, _, _)
MergeLoop(items, u, keys, sc) ==
    IF keys = <<>> THEN [raised |-> FALSE, items |-> items]
    ELSE LET k == Head(keys)
         IN  IF k = BadId THEN [raised |-> TRUE, items |-> items]
             ELSE IF ~Live(k) THEN MergeLoop(items, u, Tail(keys), sc)
             ELSE LET r == AddToRows(items[u][k], sc[k])
                  IN  IF r.raised THEN [raised |-> TRUE, items |-> items]
                      ELSE MergeLoop([items EXCEPT ![u][k] = r.rows],
                                     u, Tail(keys), sc)

\* as if merge_cart ran for every user
MergeAppliesToAll(u) == TRUE

\* merge_cart does nothing unless the user is in the Buyers group
MergeApplies(u) == "Buyers" \in groups[u]

\* the session cart merge_cart reads: django.contrib.auth.login flushes a
\* session that belongs to another user before it sends user_logged_in
SessionCartAtLogin(s, u) ==
    IF sessUser[s] \in {Anonymous, u} THEN sessCart[s] ELSE EmptySessionCart

\* the reset handshake after login: kept by cycle_key, dropped by flush
HandshakeAtLogin(s, u) ==
    IF sessUser[s] \in {Anonymous, u} THEN sessReset[s] ELSE NoHandshake

\* django.contrib.auth.login(request, u) with the merge_cart receiver.  The
\* session dict iterates in insertion order, which the model does not store:
\* every order of the present keys is the insertion order of some history.
\* When merge_cart raises, the request ends in a 500 response: the rows
\* written so far stay, the login is not saved, and the session data is kept
\* or lost depending on the session backend.
login_as(op, s, u, merges) ==
    LET sc == SessionCartAtLogin(s, u)
        present == {k \in CartKeys : sc[k] > 0}
    IN  IF ~merges
        THEN /\ sessUser' = [sessUser EXCEPT ![s] = u]
             /\ sessCart' = [sessCart EXCEPT ![s] = sc]
             /\ sessReset' = [sessReset EXCEPT ![s] = HandshakeAtLogin(s, u)]
             /\ last' = Response(op, s, u, "-", "ok")
             /\ UNCHANGED <<carts, cartItem>>
        ELSE /\ \A k \in present :
                    Live(k) => RowQty(cartItem[u][k]) + sc[k] <= MaxQty
             /\ carts' = carts \cup {u}
             /\ \E keys \in Perms(present) :
                    LET m == MergeLoop(cartItem, u, keys, sc)
                    IN  /\ cartItem' = m.items
                        /\ IF m.raised
                           THEN /\ last' = Response(op, s, u, "-", "error")
                                /\ UNCHANGED sessUser
                                /\ \E kept \in BOOLEAN :
                                      /\ sessCart' = [sessCart EXCEPT ![s] =
                                            IF kept THEN @ ELSE EmptySessionCart]
                                      /\ sessReset' = [sessReset EXCEPT ![s] =
                                            IF kept THEN @ ELSE NoHandshake]
                           ELSE /\ last' = Response(op, s, u, "-", "ok")
                                /\ sessUser' = [sessUser EXCEPT ![s] = u]
                                /\ sessCart' = [sessCart EXCEPT ![s] = EmptySessionCart]
                                /\ sessReset' = [sessReset EXCEPT ![s] =
                                                   HandshakeAtLogin(s, u)]

\* login of a user that is already in its groups
login(op, s, u) == login_as(op, s, u, MergeApplies(u))

\* auth_views.login_buyer (POST); authenticated = authenticate() found u
login_buyer(s, u, authenticated) ==
    /\ IF authenticated /\ "Buyers" \in groups[u]
       THEN login("login_buyer", s, u)
       ELSE /\ last' = Response("login_buyer", s, u, "-", "denied")
            /\ UNCHANGED <<carts, cartItem, sessUser, sessCart, sessReset>>
    /\ UNCHANGED <<resetVars, req, authVars, tweet_instance, store, store_name, product, orders, review>>

\* auth_views.login_vendor (POST)
login_vendor(s, u, authenticated) ==
    /\ IF authenticated /\ "Vendors" \in groups[u]
       THEN login("login_vendor", s, u)
       ELSE /\ last' = Response("login_vendor", s, u, "-", "denied")
            /\ UNCHANGED <<carts, cartItem, sessUser, sessCart, sessReset>>
    /\ UNCHANGED <<resetVars, req, authVars, tweet_instance, store, store_name, product, orders, review>>

(***************************************************************************)
(* Registration                                                            *)
(***************************************************************************)
\* as if get_or_create never reported created
GroupNeverCreated(g) == FALSE

\* Group.objects.get_or_create(name=g): created
GroupCreated(g) == ~auth_group[g].exists

\* register_buyer / register_vendor on a valid form: user.save(),
\* get_or_create of the group, user.groups.add, for Vendors the eight
\* permissions if the group was created, then login(request, user), which
\* runs merge_cart for the new user's groups.  valid = FALSE is a form error
\* other than a username or e-mail address that is already taken.
register(op, s, method, username, valid, account_type) ==
    LET created == GroupCreated(account_type)
        user_groups == groups[username] \cup {account_type}
    IN  /\ IF method # "POST"
           THEN /\ last' = Response(op, s, "-", "-", "form")
                /\ UNCHANGED <<authVars, carts, cartItem, sessUser, sessCart,
                               sessReset>>
           ELSE IF ~valid \/ username \in auth_user
           THEN /\ last' = Response(op, s, "-", "-", "invalid")
                /\ UNCHANGED <<authVars, carts, cartItem, sessUser, sessCart,
                               sessReset>>
           ELSE /\ auth_user' = auth_user \cup {username}
                /\ auth_group' = [auth_group EXCEPT ![account_type] =
                      [exists |-> TRUE,
                       permissions |->
                          IF account_type = "Vendors" /\ created
                          THEN VendorPermissions ELSE @.permissions]]
                /\ groups' = [groups EXCEPT ![username] = user_groups]
                /\ login_as(op, s, username, "Buyers" \in user_groups)
        /\ UNCHANGED <<resetVars, req, tweet_instance, store, store_name,
                       product, orders, review>>

\* auth_views.register_buyer
register_buyer(s, method, username, valid) ==
    register("register_buyer", s, method, username, valid, "Buyers")

\* auth_views.register_vendor
register_vendor(s, method, username, valid) ==
    register("register_vendor", s, method, username, valid, "Vendors")

\* auth_views.logout_user: logout() flushes the session
logout_user(s) ==
    /\ sessUser[s] # Anonymous
    /\ sessUser' = [sessUser EXCEPT ![s] = Anonymous]
    /\ sessCart' = [sessCart EXCEPT ![s] = EmptySessionCart]
    /\ sessReset' = [sessReset EXCEPT ![s] = NoHandshake]
    /\ last' = Response("logout", s, sessUser[s], "-", "ok")
    /\ UNCHANGED <<resetVars, req, authVars, tweet_instance, store, store_name, product, carts, cartItem,
                   orders, review>>

(***************************************************************************)
(* update_cart                                                             *)
(***************************************************************************)
\* as if the posted quantity were added to the row's quantity
SetQuantityAdded(rows, q) == <<RowQty(rows) + q>>

\* get_or_create(cart, items, defaults={"quantity": quantity}) followed by
\* "if not created: item.quantity = quantity; item.save()"
SetQuantity(rows, q) == <<q>>

\* cart_views.update_db_cart: the authenticated branch.  field is the POST
\* field that carries the product id: remove_item, update_item or neither.
update_db_cart(s, field, pid, qv) ==
    LET u == sessUser[s]
        rows == cartItem[u][pid]
    IN  /\ u # Anonymous
        /\ carts' = carts \cup {u}
        /\ IF field = "none" \/ (field = "update_item" /\ ~IsInt(qv))
           THEN /\ last' = Response("update_cart", s, u, pid, "ok")
                /\ UNCHANGED cartItem
           ELSE IF pid = BadId
           THEN \* ValidationError: not a ValueError, not caught
                /\ last' = Response("update_cart", s, u, pid, "error")
                /\ UNCHANGED cartItem
           ELSE IF field = "remove_item"
           THEN IF Len(rows) > 1
                THEN /\ last' = Response("update_cart", s, u, pid, "error")
                     /\ UNCHANGED cartItem
                ELSE /\ last' = Response("update_cart", s, u, pid, "ok")
                     /\ cartItem' = [cartItem EXCEPT ![u][pid] = <<>>]
           ELSE IF int(qv) > 0
           THEN IF Len(rows) > 1 \/ ~Live(pid)
                THEN \* MultipleObjectsReturned, or IntegrityError on the
                     \* foreign key of the row get_or_create inserts
                     /\ last' = Response("update_cart", s, u, pid, "error")
                     /\ UNCHANGED cartItem
                ELSE /\ last' = Response("update_cart", s, u, pid, "ok")
                     /\ cartItem' = [cartItem EXCEPT ![u][pid] =
                                         SetQuantity(rows, int(qv))]
           ELSE /\ last' = Response("update_cart", s, u, pid, "ok")
                /\ cartItem' = [cartItem EXCEPT ![u][pid] = <<>>]
        /\ UNCHANGED <<resetVars, sessReset, req, authVars, tweet_instance, store, store_name, product, orders, review, sessUser, sessCart>>

\* cart_views.update_cart: the anonymous branch
update_session_cart(s, field, pid, qv) ==
    /\ sessUser[s] = Anonymous
    /\ IF field = "remove_item"
       THEN sessCart' = [sessCart EXCEPT ![s][pid] = 0]
       ELSE IF field = "update_item" /\ IsInt(qv)
       THEN sessCart' = [sessCart EXCEPT ![s][pid] =
                             IF int(qv) > 0 THEN int(qv) ELSE 0]
       ELSE UNCHANGED sessCart
    /\ last' = Response("update_cart", s, Anonymous, pid, "ok")
    /\ UNCHANGED <<resetVars, sessReset, req, authVars, tweet_instance, store, store_name, product, carts, cartItem, orders, review, sessUser>>

update_cart(s, field, pid, qv) ==
    \/ update_db_cart(s, field, pid, qv)
    \/ update_session_cart(s, field, pid, qv)

(***************************************************************************)
(* Products and stores                                                     *)
(***************************************************************************)
\* what can happen to the calls the Tweet client makes: the tweet is posted,
\* the post fails, or the requests of authenticate() fail
TweetOutcomes == {"posted", "post_failed", "auth_failed"}

\* Tweet(): __new__ stores a new instance in _instance and then calls
\* authenticate(), which has no handler around its file and network calls:
\* when they fail the exception leaves Tweet(), and _instance stays set
\* without an oauth session
TweetRaises(tw) == tweet_instance = "None" /\ tw = "auth_failed"

TweetInstance(tw) ==
    IF tweet_instance # "None" THEN tweet_instance
    ELSE IF tw = "auth_failed" THEN "no_oauth" ELSE "oauth"

\* tweet_client = Tweet(); tweet_client.make_tweet(text=text) after the row
\* is saved.  make_tweet catches the missing oauth session and whatever the
\* post raises, and returns; an exception of Tweet() ends the request in a
\* 500 response.
Announce(op, s, u, status, tw) ==
    /\ tweet_instance' = TweetInstance(tw)
    /\ last' = Response(op, s, u, "-",
                        IF TweetRaises(tw) THEN "tweet_error" ELSE status)

\* on_delete=CASCADE from Product: its CartItem and Review rows go with it
CascadeProducts(gone) ==
    /\ product' = [p \in ProductIds |->
                     IF p \in gone THEN NoProduct("deleted") ELSE product[p]]
    /\ cartItem' = [u \in Users |-> [p \in ProductIds |->
                     IF p \in gone THEN <<>> ELSE cartItem[u][p]]]
    /\ review' = [u \in Users |-> [p \in ProductIds |->
                     IF p \in gone THEN <<>> ELSE review[u][p]]]

\* as if OrderItem.product were a cascading foreign key to Product
OrderItemsCascaded(os, gone) ==
    [i \in 1 .. Len(os) |->
        [os[i] EXCEPT !.items = SelectSeq(@, LAMBDA it : it.line \notin gone)]]

\* OrderItem rows after Product rows are deleted: OrderItem.product is a
\* CharField holding the name, there is no foreign key to Product
OrderItemsKept(os, gone) == os

\* as if the views compared the owner of the Store or Product with the user
ObjectPermittedToOwner(u, owner) == has_perm(u) /\ u = owner

\* update_store, delete_store, update_product, delete_product: the check
\* made before the object of owner is fetched and changed is the model-level
\* has_perm alone, the owner is not looked at
ObjectPermitted(u, owner) == has_perm(u)

\* product_views.delete_product; pk is a UUID (URL converter)
delete_product(s, pk) ==
    LET u == sessUser[s]
    IN  /\ IF ~ObjectPermitted(u, product[pk].store)
           THEN /\ last' = Response("delete_product", s, u, "-", "error")
                /\ UNCHANGED <<product, cartItem, review, orders>>
           ELSE IF ~Live(pk)
           THEN /\ last' = Response("delete_product", s, u, "-", "404")
                /\ UNCHANGED <<product, cartItem, review, orders>>
           ELSE /\ last' = Response("delete_product", s, u, "-", "ok")
                /\ CascadeProducts({pk})
                /\ orders' = OrderItemsKept(orders, {pk})
        /\ UNCHANGED <<resetVars, sessReset, req, authVars, tweet_instance, store, store_name, carts, sessUser, sessCart>>

\* a product_name as typed, with white space around it
Padded == " x"
ProductNames == {f[1] : f \in Catalogue}

\* str.strip(): forms.CharField (strip=True) and the serializers' CharField
\* (trim_whitespace=True) clean a name by stripping it
strip(name) == IF name = Padded THEN "x" ELSE name

\* the pre-check of create_product and update_product: another product of
\* the same store already has the name
NameTaken(owner, name, self) ==
    \E p \in ProductIds \ {self} :
        Live(p) /\ product[p].store = owner /\ product[p].product_name = name

\* product_views.update_product (POST, valid form)
update_product(s, pk, posted, price) ==
    LET u == sessUser[s]
        name == strip(posted)
    IN  /\ IF ~ObjectPermitted(u, product[pk].store)
           THEN /\ last' = Response("update_product", s, u, "-", "error")
                /\ UNCHANGED product
           ELSE IF ~Live(pk)
           THEN /\ last' = Response("update_product", s, u, "-", "404")
                /\ UNCHANGED product
           ELSE IF NameTaken(product[pk].store, name, pk)
           THEN /\ last' = Response("update_product", s, u, "-", "rejected")
                /\ UNCHANGED product
           ELSE /\ last' = Response("update_product", s, u, "-", "ok")
                /\ product' = [product EXCEPT ![pk].product_name = name,
                                              ![pk].price = price]
        /\ UNCHANGED <<resetVars, sessReset, req, authVars, tweet_instance, store, store_name, carts, cartItem, orders, review,
                       sessUser, sessCart>>

\* product_views.create_product (POST, valid form).  The new row gets a
\* fresh UUID: an id no row ever had.
create_product(s, posted, price, tw) ==
    LET u == sessUser[s]
        name == strip(posted)
    IN  /\ IF ~has_perm(u) \/ ~store[u]
           THEN \* no response, or Store.DoesNotExist from Store.objects.get
                /\ last' = Response("create_product", s, u, "-", "error")
                /\ UNCHANGED <<product, tweet_instance>>
           ELSE IF NameTaken(u, name, "-")
           THEN /\ last' = Response("create_product", s, u, "-", "rejected")
                /\ UNCHANGED <<product, tweet_instance>>
           ELSE \E pk \in ProductIds :
                /\ product[pk].state = "unborn"
                /\ product' = [product EXCEPT ![pk] =
                                 [state |-> "live", store |-> u,
                                  product_name |-> name, price |-> price]]
                /\ Announce("create_product", s, u, "ok", tw)
        /\ UNCHANGED <<resetVars, sessReset, req, authVars, store, store_name, carts, cartItem, orders, review,
                       sessUser, sessCart>>

\* api add_product (valid payload), authenticated by its credentials.  The
\* duplicate check reads request.data, the row is written from the
\* serializer's validated data.
add_product(u, posted, price, tw) ==
    /\ IF u = Anonymous
       THEN /\ last' = Response("add_product", "-", u, "-", "401")
            /\ UNCHANGED <<product, tweet_instance>>
       ELSE IF ~has_perm(u)
       THEN /\ last' = Response("add_product", "-", u, "-", "403")
            /\ UNCHANGED <<product, tweet_instance>>
       ELSE IF ~store[u]
       THEN /\ last' = Response("add_product", "-", u, "-", "400")
            /\ UNCHANGED <<product, tweet_instance>>
       ELSE IF NameTaken(u, posted, "-")
       THEN /\ last' = Response("add_product", "-", u, "-", "rejected")
            /\ UNCHANGED <<product, tweet_instance>>
       ELSE \E pk \in ProductIds :
            /\ product[pk].state = "unborn"
            /\ product' = [product EXCEPT ![pk] =
                             [state |-> "live", store |-> u,
                              product_name |-> strip(posted),
                              price |-> price]]
            /\ Announce("add_product", "-", u, "ok", tw)
    /\ UNCHANGED <<resetVars, sessReset, req, authVars, store, store_name, carts,
                   cartItem, orders, review, sessUser, sessCart>>

\* store_views.create_store (POST, valid form); Store.owner is one-to-one
create_store(s, name, tw) ==
    LET u == sessUser[s]
    IN  /\ IF ~has_perm(u) \/ store[u]
           THEN \* no response, or IntegrityError on the unique owner
                /\ last' = Response("create_store", s, u, "-", "error")
                /\ UNCHANGED <<store, store_name, tweet_instance>>
           ELSE /\ Announce("create_store", s, u, "ok", tw)
                /\ store' = [store EXCEPT ![u] = TRUE]
                /\ store_name' = [store_name EXCEPT ![u] = Append(@, name)]
        /\ UNCHANGED <<resetVars, sessReset, req, authVars, product, carts, cartItem, orders, review,
                       sessUser, sessCart>>

\* store_views.update_store (POST, valid form); the store is named by
\* its owner
update_store(s, owner, name) ==
    LET u == sessUser[s]
    IN  /\ IF ~ObjectPermitted(u, owner)
           THEN /\ last' = Response("update_store", s, u, "-", "error")
                /\ UNCHANGED store_name
           ELSE IF ~store[owner]
           THEN /\ last' = Response("update_store", s, u, "-", "404")
                /\ UNCHANGED store_name
           ELSE /\ last' = Response("update_store", s, u, "-", "ok")
                /\ store_name' = [store_name EXCEPT ![owner] =
                                     [i \in 1 .. Len(@) |-> name]]
        /\ UNCHANGED <<resetVars, sessReset, req, authVars, tweet_instance, store, product,
                       carts, cartItem, orders, review, sessUser, sessCart>>

\* store_views.delete_store; the store is named by its owner
delete_store(s, owner) ==
    LET u == sessUser[s]
        gone == {p \in ProductIds : Live(p) /\ product[p].store = owner}
    IN  /\ IF ~ObjectPermitted(u, owner)
           THEN /\ last' = Response("delete_store", s, u, "-", "error")
                /\ UNCHANGED <<store, store_name, product, cartItem, review, orders>>
           ELSE IF ~store[owner]
           THEN /\ last' = Response("delete_store", s, u, "-", "404")
                /\ UNCHANGED <<store, store_name, product, cartItem, review, orders>>
           ELSE /\ last' = Response("delete_store", s, u, "-", "ok")
                /\ store' = [store EXCEPT ![owner] = FALSE]
                /\ store_name' = [store_name EXCEPT ![owner] = <<>>]
                /\ CascadeProducts(gone)
                /\ orders' = OrderItemsKept(orders, gone)
        /\ UNCHANGED <<resetVars, sessReset, req, authVars, tweet_instance, carts, sessUser, sessCart>>

(***************************************************************************)
(* checkout                                                                *)
(***************************************************************************)
\* cart.cartitem_set.all(): the CartItem rows of u's cart
RECURSIVE CartLines(_, _, _)
CartLines(items, u, i) ==
    IF i > Len(ProductSeq) THEN <<>>
    ELSE [k \in 1 .. Len(items[u][ProductSeq[i]]) |->
             [pid |-> ProductSeq[i], quantity |-> items[u][ProductSeq[i]][k]]]
         \o CartLines(items, u, i + 1)

\* sum(item.items.price * item.quantity for item in cart_items)
RECURSIVE TotalPrice(_)
TotalPrice(lines) ==
    IF lines = <<>> THEN 0
    ELSE product[Head(lines).pid].price * Head(lines).quantity
         + TotalPrice(Tail(lines))

\* as if the OrderItem took the unit price
NewOrderItemUnitPrice(l) ==
    [product |-> product[l.pid].product_name,
     quantity |-> l.quantity,
     price |-> product[l.pid].price,
     line |-> l.pid]

\* the OrderItem created for one cart line.  line is not a column: it
\* records which product the row was created from.
NewOrderItem(l) ==
    [product |-> product[l.pid].product_name,
     quantity |-> l.quantity,
     price |-> product[l.pid].price * l.quantity,
     line |-> l.pid]

\* Order.objects.create followed by the loop of OrderItem.objects.create
NewOrder(u, lines) ==
    [user |-> u, total_price |-> TotalPrice(lines),
     items |-> [k \in 1 .. Len(lines) |-> NewOrderItem(lines[k])]]

\* as if only the first row of the queryset were deleted
ClearCartFirstRow(items, u) ==
    LET first == CHOOSE p \in ProductIds :
                    /\ items[u][p] # <<>>
                    /\ \A q \in ProductIds : items[u][q] # <<>> =>
                          \E i, j \in 1 .. Len(ProductSeq) :
                              ProductSeq[i] = p /\ ProductSeq[j] = q /\ i <= j
    IN  [items EXCEPT ![u][first] = <<>>]

\* cart_items.delete()
ClearCart(items, u) == [items EXCEPT ![u] = [p \in ProductIds |-> <<>>]]

\* as if the view ran in one transaction that the exception rolls back
AfterEmailFailureAtomic(os, o) == os

\* the database after email.send raised: the view is not atomic, the rows
\* written before the exception stay
AfterEmailFailure(os, o) == Append(os, o)

\* as if the POST branch did not test cart.cartitem_set.exists()
CartIsEmptyUnchecked(lines) == FALSE

\* not cart.cartitem_set.exists()
CartIsEmpty(lines) == lines = <<>>

\* order_views.checkout; sent = email.send(fail_silently=False) returned
checkout(s, method, sent) ==
    LET u == sessUser[s]
        lines == CartLines(cartItem, u, 1)
        op == IF method = "POST" THEN "checkout" ELSE "checkout_get"
    IN  /\ IF u = Anonymous
           THEN /\ last' = Response(op, s, u, "-", "redirect")
                /\ UNCHANGED <<orders, cartItem>>
           ELSE IF u \notin carts
           THEN /\ last' = Response(op, s, u, "-", "404")
                /\ UNCHANGED <<orders, cartItem>>
           ELSE IF method # "POST"
           THEN /\ last' = Response(op, s, u, "-", "ok")
                /\ UNCHANGED <<orders, cartItem>>
           ELSE IF CartIsEmpty(lines)
           THEN /\ last' = Response(op, s, u, "-", "empty")
                /\ UNCHANGED <<orders, cartItem>>
           ELSE /\ Len(orders) < MaxOrders
                /\ IF sent
                   THEN /\ orders' = Append(orders, NewOrder(u, lines))
                        /\ cartItem' = ClearCart(cartItem, u)
                        /\ last' = Response(op, s, u, "-", "ok")
                   ELSE /\ orders' = AfterEmailFailure(orders, NewOrder(u, lines))
                        /\ UNCHANGED cartItem
                        /\ last' = Response(op, s, u, "-", "email_failed")
        /\ UNCHANGED <<resetVars, sessReset, req, authVars, tweet_instance, store, store_name, product, carts, review, sessUser, sessCart>>

(***************************************************************************)
(* create_review                                                           *)
(***************************************************************************)
\* OrderItem.objects.filter(order__user=user, product=product).exists():
\* OrderItem.product is a CharField, the Product instance is compared
\* through str(product), its product_name
OrderItemNamed(u, name) ==
    \E i \in 1 .. Len(orders) :
        /\ orders[i].user = u
        /\ \E k \in 1 .. Len(orders[i].items) :
              orders[i].items[k].product = name

has_purchased(u, pk) == OrderItemNamed(u, product[pk].product_name)

\* review_views.create_review; pk is a UUID (URL converter)
create_review(s, pk, method) ==
    LET u == sessUser[s]
    IN  /\ IF ~Live(pk)
           THEN /\ last' = Response("create_review", s, u, pk, "404")
                /\ UNCHANGED review
           ELSE IF u = Anonymous
           THEN \* TypeError from filter(user=AnonymousUser)
                /\ last' = Response("create_review", s, u, pk, "error")
                /\ UNCHANGED review
           ELSE IF review[u][pk] # <<>>
           THEN /\ last' = Response("create_review", s, u, pk, "rejected")
                /\ UNCHANGED review
           ELSE IF method # "POST"
           THEN /\ last' = Response("create_review", s, u, pk, "form")
                /\ UNCHANGED review
           ELSE /\ last' = Response("create_review", s, u, pk, "created")
                /\ review' = [review EXCEPT ![u][pk] =
                                 Append(@, has_purchased(u, pk))]
        /\ UNCHANGED <<resetVars, sessReset, req, authVars, tweet_instance, store, store_name, product, carts, cartItem, orders,
                       sessUser, sessCart>>

(***************************************************************************)
(* create_review, one database statement per step: the requests of         *)
(* Requests run interleaved, each holding the Product instance it fetched. *)
(***************************************************************************)
InFlight(s, u, pk, method, pc) ==
    [pc |-> pc, session |-> s, user |-> u, pid |-> pk,
     name |-> product[pk].product_name, method |-> method,
     has_purchased |-> FALSE,
     quantity |-> 0, snapshot |-> <<>>, total_price |-> 0, order |-> 0]

\* get_object_or_404(Product, pk=pk); user = request.user
review_get_product(r, s, pk, method) ==
    /\ req[r] = Idle
    /\ IF ~Live(pk)
       THEN /\ last' = Response("create_review", s, sessUser[s], pk, "404")
            /\ UNCHANGED req
       ELSE /\ req' = [req EXCEPT ![r] =
                          InFlight(s, sessUser[s], pk, method, "exists")]
            /\ UNCHANGED last
    /\ UNCHANGED <<resetVars, sessReset, authVars, tweet_instance, store, store_name, product, carts,
                   cartItem, orders, review, sessUser, sessCart>>

\* Review.objects.filter(user=user, product=product).exists()
review_exists(r) ==
    LET q == req[r]
    IN  /\ q.pc = "exists"
        /\ IF q.user = Anonymous
           THEN /\ last' = Response("create_review", q.session, q.user,
                                    q.pid, "error")
                /\ req' = [req EXCEPT ![r] = Idle]
           ELSE IF review[q.user][q.pid] # <<>>
           THEN /\ last' = Response("create_review", q.session, q.user,
                                    q.pid, "rejected")
                /\ req' = [req EXCEPT ![r] = Idle]
           ELSE /\ req' = [req EXCEPT ![r].pc = "has_purchased"]
                /\ UNCHANGED last
        /\ UNCHANGED <<resetVars, sessReset, authVars, tweet_instance, store, store_name, product, carts,
                       cartItem, orders, review, sessUser, sessCart>>

\* OrderItem.objects.filter(order__user=user, product=product).exists(),
\* then the branch on request.method
review_has_purchased(r) ==
    LET q == req[r]
    IN  /\ q.pc = "has_purchased"
        /\ IF q.method # "POST"
           THEN /\ last' = Response("create_review", q.session, q.user,
                                    q.pid, "form")
                /\ req' = [req EXCEPT ![r] = Idle]
           ELSE /\ req' = [req EXCEPT ![r].pc = "create",
                                      ![r].has_purchased =
                                          OrderItemNamed(q.user, q.name)]
                /\ UNCHANGED last
        /\ UNCHANGED <<resetVars, sessReset, authVars, tweet_instance, store, store_name, product, carts,
                       cartItem, orders, review, sessUser, sessCart>>

\* no unique constraint: every INSERT is accepted
NoUniqueConstraint(rows) == TRUE

\* Meta.constraints unique_user_product_review: the INSERT is accepted when
\* the pair has no row
unique_user_product_review(rows) == rows = <<>>

\* Review.objects.create(...): IntegrityError from the foreign key when the
\* product row is gone, and from the unique constraint
review_create(r) ==
    LET q == req[r]
    IN  /\ q.pc = "create"
        /\ req' = [req EXCEPT ![r] = Idle]
        /\ IF ~Live(q.pid) \/ ~unique_user_product_review(review[q.user][q.pid])
           THEN /\ last' = Response("create_review", q.session, q.user,
                                    q.pid, "integrity_error")
                /\ UNCHANGED review
           ELSE /\ last' = Response("create_review", q.session, q.user,
                                    q.pid, "created")
                /\ review' = [review EXCEPT ![q.user][q.pid] =
                                 Append(@, q.has_purchased)]
        /\ UNCHANGED <<resetVars, sessReset, authVars, tweet_instance, store, store_name, product, carts,
                       cartItem, orders, sessUser, sessCart>>

(***************************************************************************)
(* Store creation, one database statement per step: the web view           *)
(* create_store and the API endpoint add_store.  The API authenticates     *)
(* each request by its credentials (BasicAuthentication), not the session. *)
(***************************************************************************)
StoreInFlight(s, u, name, pc) ==
    [pc |-> pc, session |-> s, user |-> u, pid |-> "-", name |-> name,
     method |-> "POST", has_purchased |-> FALSE,
     quantity |-> 0, snapshot |-> <<>>, total_price |-> 0, order |-> 0]

\* the owner column accepts any number of rows per user
OwnerNotUnique(rows) == TRUE

\* Store.owner is a OneToOneField: the INSERT is accepted when the owner
\* has no Store row
owner_unique(rows) == rows = <<>>

\* store.save() / serializer.save(owner=...): IntegrityError on a second
\* row of the same owner
StoreInsert(r, op, tw) ==
    LET q == req[r]
    IN  /\ req' = [req EXCEPT ![r] = Idle]
        /\ IF ~owner_unique(store_name[q.user])
           THEN /\ last' = Response(op, q.session, q.user, "-",
                                    "integrity_error")
                /\ UNCHANGED <<store, store_name, tweet_instance>>
           ELSE /\ Announce(op, q.session, q.user, "created", tw)
                /\ store' = [store EXCEPT ![q.user] = TRUE]
                /\ store_name' = [store_name EXCEPT ![q.user] =
                                     Append(@, q.name)]
        /\ UNCHANGED <<resetVars, sessReset, authVars, product, carts,
                       cartItem, orders, review, sessUser, sessCart>>

\* create_store: has_perm("online_store.add_store"), StoreForm.is_valid()
create_store_form(r, s, name) ==
    LET u == sessUser[s]
    IN  /\ req[r] = Idle
        /\ IF ~has_perm(u)
           THEN \* the view returns no response
                /\ last' = Response("create_store", s, u, "-", "error")
                /\ UNCHANGED req
           ELSE IF name \notin StoreNames
           THEN /\ last' = Response("create_store", s, u, "-", "form")
                /\ UNCHANGED req
           ELSE /\ req' = [req EXCEPT ![r] =
                              StoreInFlight(s, u, name, "create_store_save")]
                /\ UNCHANGED last
        /\ UNCHANGED <<resetVars, sessReset, authVars, tweet_instance, store, store_name,
                       product, carts, cartItem, orders, review, sessUser,
                       sessCart>>

\* create_store: store.owner = request.user; store.save()
create_store_save(r, tw) ==
    /\ req[r].pc = "create_store_save"
    /\ StoreInsert(r, "create_store", tw)

\* add_store: IsAuthenticated, has_perm("online_store.add_store")
add_store_perm(r, u) ==
    /\ req[r] = Idle
    /\ IF u = Anonymous
       THEN /\ last' = Response("add_store", "-", u, "-", "401")
            /\ UNCHANGED req
       ELSE IF ~has_perm(u)
       THEN /\ last' = Response("add_store", "-", u, "-", "403")
            /\ UNCHANGED req
       ELSE /\ req' = [req EXCEPT ![r] =
                          StoreInFlight("-", u, "-", "add_store_exists")]
            /\ UNCHANGED last
    /\ UNCHANGED <<resetVars, sessReset, authVars, tweet_instance, store, store_name, product,
                   carts, cartItem, orders, review, sessUser, sessCart>>

\* add_store: Store.objects.filter(owner=request.user).exists(), then
\* StoreSerializer.is_valid()
add_store_exists(r, name) ==
    LET q == req[r]
    IN  /\ q.pc = "add_store_exists"
        /\ IF store_name[q.user] # <<>>
           THEN /\ last' = Response("add_store", "-", q.user, "-", "rejected")
                /\ req' = [req EXCEPT ![r] = Idle]
           ELSE IF name \notin StoreNames
           THEN /\ last' = Response("add_store", "-", q.user, "-", "400")
                /\ req' = [req EXCEPT ![r] = Idle]
           ELSE /\ req' = [req EXCEPT ![r].pc = "add_store_save",
                                      ![r].name = name]
                /\ UNCHANGED last
        /\ UNCHANGED <<resetVars, sessReset, authVars, tweet_instance, store, store_name,
                       product, carts, cartItem, orders, review, sessUser,
                       sessCart>>

\* add_store: serializer.save(owner=request.user)
add_store_save(r, tw) ==
    /\ req[r].pc = "add_store_save"
    /\ StoreInsert(r, "add_store", tw)

(***************************************************************************)
(* Password reset                                                          *)
(***************************************************************************)
\* str(secrets.token_urlsafe(16)): the k-th token drawn; "0" is a string
\* that was never drawn
RawToken(k) == ToString(k)
RawTokens == {RawToken(k) : k \in 0 .. MaxTokens}

\* sha1(token.encode()).hexdigest(): a digest, different for different tokens
Sha1(token) == <<"sha1", token>>

TokenRows(rows, token) == {row \in rows : row.token = Sha1(token)}

\* no request is being answered
NoResponse == Response("-", "-", "-", "-", "-")

\* a minute passes
Tick ==
    /\ now < MaxTime
    /\ now' = now + 1
    /\ last' = NoResponse
    /\ UNCHANGED <<resetToken, password, issued, consumed, sessReset, req,
                   authVars, tweet_instance, store, store_name, product, carts, cartItem, orders, review,
                   sessUser, sessCart>>

\* generate_reset_url: ResetToken.objects.create(user, sha1(token), expiry)
generate_reset_url(u) ==
    [user |-> u, token |-> Sha1(RawToken(issued + 1)),
     expiry_date |-> now + ExpiryMinutes]

\* send_password_reset; accounts are found by their e-mail address, one per
\* user; sent = FALSE is email.send() raising after the row was written
send_password_reset(s, method, email, sent) ==
    /\ IF method # "POST"
       THEN /\ last' = Response("send_password_reset", s, "-", "-", "form")
            /\ UNCHANGED <<resetToken, issued>>
       ELSE IF email \notin Users
       THEN /\ last' = Response("send_password_reset", s, "-", "-", "no_account")
            /\ UNCHANGED <<resetToken, issued>>
       ELSE /\ issued < MaxTokens
            /\ resetToken' = resetToken \cup {generate_reset_url(email)}
            /\ issued' = issued + 1
            /\ last' = Response("send_password_reset", s, email, "-",
                                IF sent THEN "sent" ELSE "email_failed")
    /\ UNCHANGED <<password, now, consumed, sessReset, req, authVars, tweet_instance, store, store_name,
                   product, carts, cartItem, orders, review, sessUser,
                   sessCart>>

\* the expired row stays in the table
ExpiredRowKept(rows, row) == rows

\* user_token.delete()
ExpiredRowDeleted(rows, row) == rows \ {row}

\* reset_user_password(request, token)
reset_user_password(s, token) ==
    LET rows == TokenRows(resetToken, token)
    IN  /\ IF rows = {}
           THEN \* ResetToken.DoesNotExist
                /\ last' = Response("reset_user_password", s, "-", token,
                                    "invalid")
                /\ UNCHANGED <<resetToken, sessReset>>
           ELSE IF Cardinality(rows) > 1
           THEN \* MultipleObjectsReturned
                /\ last' = Response("reset_user_password", s, "-", token,
                                    "error")
                /\ UNCHANGED <<resetToken, sessReset>>
           ELSE LET user_token == CHOOSE row \in rows : TRUE
                IN  IF user_token.expiry_date < now
                    THEN /\ resetToken' = ExpiredRowDeleted(resetToken, user_token)
                         /\ last' = Response("reset_user_password", s,
                                             user_token.user, token, "expired")
                         /\ UNCHANGED sessReset
                    ELSE /\ sessReset' = [sessReset EXCEPT ![s] =
                                [user |-> user_token.user, token |-> token]]
                         /\ last' = Response("reset_user_password", s,
                                             user_token.user, token, "valid")
                         /\ UNCHANGED resetToken
        /\ UNCHANGED <<password, now, issued, consumed, req, authVars, tweet_instance, store, store_name,
                       product, carts, cartItem, orders, review, sessUser,
                       sessCart>>

\* change_user_password: user.set_password(new_password); user.save()
change_user_password(pw, username, new_password) ==
    [pw EXCEPT ![username] = new_password]

\* the rows of the token stay in the table
TokenRowsKept(rows, token) == rows

\* ResetToken.objects.filter(token=sha1(token)).delete()
TokenRowsDeleted(rows, token) == rows \ TokenRows(rows, token)

\* as if reset_password went on without the staged handshake
HandshakeNeverMissing(username, token) == FALSE

\* reset_password: not username or not token
HandshakeMissing(username, token) == username = "-" \/ token = "-"

\* reset_password(request)
reset_password(s, method, pw, password_conf) ==
    LET username == sessReset[s].user
        token == sessReset[s].token
    IN  /\ IF method # "POST"
           THEN /\ last' = Response("reset_password", s, "-", "-", "form")
                /\ UNCHANGED <<resetToken, password, consumed, sessReset>>
           ELSE IF HandshakeMissing(username, token)
           THEN /\ last' = Response("reset_password", s, "-", "-",
                                    "no_handshake")
                /\ UNCHANGED <<resetToken, password, consumed, sessReset>>
           ELSE IF pw = password_conf
           THEN /\ password' = change_user_password(password, username, pw)
                /\ resetToken' = TokenRowsDeleted(resetToken, token)
                /\ sessReset' = [sessReset EXCEPT ![s] = NoHandshake]
                /\ consumed' = consumed \cup {token}
                /\ last' = Response("reset_password", s, username, token,
                                    "changed")
           ELSE /\ last' = Response("reset_password", s, username, token,
                                    "mismatch")
                /\ UNCHANGED <<resetToken, password, consumed, sessReset>>
        /\ UNCHANGED <<now, issued, req, authVars, tweet_instance, store, store_name, product, carts,
                       cartItem, orders, review, sessUser, sessCart>>

(***************************************************************************)
(* add_item_db_cart and checkout, one database statement per step: the     *)
(* requests of Requests run interleaved.  A request holds what it read:    *)
(* snapshot is the CartItem instance get_or_create returned (its           *)
(* quantity), or the evaluated cart_items queryset of checkout (as the     *)
(* OrderItems the loop will create from it).  Rows have no identity here:  *)
(* the row an add request read is the first row of its (cart, product)     *)
(* pair, and save() inserts the row again when none is left.               *)
(***************************************************************************)
CartInFlight(s, u, pid, pc) ==
    [pc |-> pc, session |-> s, user |-> u, pid |-> pid, name |-> "-",
     method |-> "POST", has_purchased |-> FALSE,
     quantity |-> 0, snapshot |-> <<>>, total_price |-> 0, order |-> 0]

RaceFrame ==
    UNCHANGED <<resetVars, sessReset, authVars, tweet_instance, store,
                store_name, product, review, sessUser, sessCart>>

\* add_item_db_cart: the posted quantity, get_object_or_404(Product),
\* Cart.objects.get_or_create(user)
add_db_cart_begin(r, s, item, qv) ==
    LET u == sessUser[s]
    IN  /\ req[r] = Idle
        /\ u # Anonymous
        /\ IF item = BadId
           THEN /\ last' = Response("add_item", s, u, item, "error")
                /\ UNCHANGED <<carts, req>>
           ELSE IF ~Live(item)
           THEN /\ last' = Response("add_item", s, u, item, "404")
                /\ UNCHANGED <<carts, req>>
           ELSE /\ carts' = carts \cup {u}
                /\ req' = [req EXCEPT ![r] =
                      [CartInFlight(s, u, item, "add_get") EXCEPT
                          !.quantity = PostedQuantity(qv)]]
                /\ UNCHANGED last
        /\ UNCHANGED <<cartItem, orders>>
        /\ RaceFrame

\* CartItem.objects.get_or_create: the SELECT of get()
add_db_cart_get(r) ==
    LET q == req[r]
        rows == cartItem[q.user][q.pid]
    IN  /\ q.pc = "add_get"
        /\ IF Len(rows) > 1
           THEN \* MultipleObjectsReturned
                /\ last' = Response("add_item", q.session, q.user, q.pid,
                                    "error")
                /\ req' = [req EXCEPT ![r] = Idle]
           ELSE /\ req' = [req EXCEPT ![r].pc =
                                 IF rows = <<>> THEN "add_create"
                                 ELSE "add_save",
                                 ![r].snapshot = rows]
                /\ UNCHANGED last
        /\ UNCHANGED <<carts, cartItem, orders>>
        /\ RaceFrame

\* CartItem.objects.get_or_create: the INSERT of create(), after get() found
\* no row.  No constraint of CartItem refuses a second row of the pair; the
\* foreign key refuses a product that is gone.
add_db_cart_create(r) ==
    LET q == req[r]
    IN  /\ q.pc = "add_create"
        /\ req' = [req EXCEPT ![r] = Idle]
        /\ IF ~Live(q.pid)
           THEN /\ last' = Response("add_item", q.session, q.user, q.pid,
                                    "error")
                /\ UNCHANGED cartItem
           ELSE /\ q.quantity <= MaxQty
                /\ cartItem' = [cartItem EXCEPT ![q.user][q.pid] =
                                    Append(@, q.quantity)]
                /\ last' = Response("add_item", q.session, q.user, q.pid, "ok")
        /\ UNCHANGED <<carts, orders>>
        /\ RaceFrame

\* as if the increment were made by the database on the row's current value
SavedQuantityAtomic(read, current, quantity) == current + quantity

\* cart_item.quantity += quantity, on the instance that was read
SavedQuantity(read, current, quantity) == read + quantity

\* cart_item.save(): UPDATE of the row, INSERT when the row is gone
add_db_cart_save(r) ==
    LET q == req[r]
        rows == cartItem[q.user][q.pid]
        new == SavedQuantity(q.snapshot[1], RowQty(rows), q.quantity)
    IN  /\ q.pc = "add_save"
        /\ req' = [req EXCEPT ![r] = Idle]
        /\ IF ~Live(q.pid)
           THEN /\ last' = Response("add_item", q.session, q.user, q.pid,
                                    "error")
                /\ UNCHANGED cartItem
           ELSE /\ new <= MaxQty
                /\ cartItem' = [cartItem EXCEPT ![q.user][q.pid] =
                                    IF rows = <<>> THEN <<new>>
                                    ELSE [rows EXCEPT ![1] = new]]
                /\ last' = Response("add_item", q.session, q.user, q.pid, "ok")
        /\ UNCHANGED <<carts, orders>>
        /\ RaceFrame

\* the OrderItems the loop creates from the evaluated queryset
RECURSIVE OrderItemsOf(_)
OrderItemsOf(lines) ==
    IF lines = <<>> THEN <<>>
    ELSE <<NewOrderItem(Head(lines))>> \o OrderItemsOf(Tail(lines))

\* checkout: get_object_or_404(Cart, user), then sum(... for item in
\* cart_items) evaluates the queryset and keeps its rows and their products
checkout_read(r, s, method) ==
    LET u == sessUser[s]
        lines == CartLines(cartItem, u, 1)
        op == IF method = "POST" THEN "checkout" ELSE "checkout_get"
    IN  /\ req[r] = Idle
        /\ IF u = Anonymous
           THEN /\ last' = Response(op, s, u, "-", "redirect")
                /\ UNCHANGED req
           ELSE IF u \notin carts
           THEN /\ last' = Response(op, s, u, "-", "404")
                /\ UNCHANGED req
           ELSE IF method # "POST"
           THEN /\ last' = Response(op, s, u, "-", "ok")
                /\ UNCHANGED req
           ELSE /\ req' = [req EXCEPT ![r] =
                      [CartInFlight(s, u, "-", "checkout_exists") EXCEPT
                          !.snapshot = OrderItemsOf(lines),
                          !.total_price = TotalPrice(lines)]]
                /\ UNCHANGED last
        /\ UNCHANGED <<carts, cartItem, orders>>
        /\ RaceFrame

\* checkout: cart.cartitem_set.exists(), a query of its own
checkout_exists(r) ==
    LET q == req[r]
    IN  /\ q.pc = "checkout_exists"
        /\ IF CartIsEmpty(CartLines(cartItem, q.user, 1))
           THEN /\ last' = Response("checkout", q.session, q.user, "-", "empty")
                /\ req' = [req EXCEPT ![r] = Idle]
           ELSE /\ req' = [req EXCEPT ![r].pc = "checkout_order"]
                /\ UNCHANGED last
        /\ UNCHANGED <<carts, cartItem, orders>>
        /\ RaceFrame

\* checkout: Order.objects.create(user, total_price)
checkout_order(r) ==
    LET q == req[r]
    IN  /\ q.pc = "checkout_order"
        /\ Len(orders) < MaxOrders
        /\ orders' = Append(orders, [user |-> q.user,
                                     total_price |-> q.total_price,
                                     items |-> <<>>])
        /\ req' = [req EXCEPT ![r].pc = "checkout_items",
                              ![r].order = Len(orders) + 1]
        /\ UNCHANGED <<carts, cartItem, last>>
        /\ RaceFrame

\* checkout: the loop over the evaluated queryset, one
\* OrderItem.objects.create per step
checkout_items(r) ==
    LET q == req[r]
    IN  /\ q.pc = "checkout_items"
        /\ IF q.snapshot = <<>>
           THEN /\ req' = [req EXCEPT ![r].pc = "checkout_email"]
                /\ UNCHANGED orders
           ELSE /\ orders' = [orders EXCEPT ![q.order].items =
                                  Append(@, Head(q.snapshot))]
                /\ req' = [req EXCEPT ![r].snapshot = Tail(q.snapshot)]
        /\ UNCHANGED <<carts, cartItem, last>>
        /\ RaceFrame

\* checkout: email.send(fail_silently=False)
checkout_email(r, sent) ==
    LET q == req[r]
    IN  /\ q.pc = "checkout_email"
        /\ IF sent
           THEN /\ req' = [req EXCEPT ![r].pc = "checkout_delete"]
                /\ UNCHANGED last
           ELSE /\ req' = [req EXCEPT ![r] = Idle]
                /\ last' = Response("checkout", q.session, q.user, "-",
                                    "email_failed")
        /\ UNCHANGED <<carts, cartItem, orders>>
        /\ RaceFrame

\* checkout: cart_items.delete() deletes by a new query, the rows the cart
\* has now
checkout_delete(r) ==
    LET q == req[r]
    IN  /\ q.pc = "checkout_delete"
        /\ cartItem' = ClearCart(cartItem, q.user)
        /\ req' = [req EXCEPT ![r] = Idle]
        /\ last' = Response("checkout", q.session, q.user, "-", "ok")
        /\ UNCHANGED <<carts, orders>>
        /\ RaceFrame

(***************************************************************************)
(* create_product and the API endpoint add_product, with the existence     *)
(* pre-check and the INSERT as separate steps.  snapshot is the unsaved    *)
(* Product the request holds: its product_name and price.                  *)
(***************************************************************************)
\* as if Product had a unique constraint on (store, product_name)
ProductNameUnique(owner, name) == ~NameTaken(owner, name, "-")

\* the INSERT of a Product: models.Product declares no constraint on
\* product_name, every name is accepted
ProductInsertAccepted(owner, name) == TRUE

\* product.save() / serializer.save(store=store)
ProductInsert(r, op, tw) ==
    LET q == req[r]
    IN  /\ req' = [req EXCEPT ![r] = Idle]
        /\ IF ~store[q.user]
           THEN \* the store is gone: no request.user.store, Store.DoesNotExist
                /\ last' = Response(op, q.session, q.user, "-", "error")
                /\ UNCHANGED <<product, tweet_instance>>
           ELSE IF ~ProductInsertAccepted(q.user, q.snapshot[1])
           THEN /\ last' = Response(op, q.session, q.user, "-",
                                    "integrity_error")
                /\ UNCHANGED <<product, tweet_instance>>
           ELSE \E pk \in ProductIds :
                /\ product[pk].state = "unborn"
                /\ product' = [product EXCEPT ![pk] =
                                 [state |-> "live", store |-> q.user,
                                  product_name |-> q.snapshot[1],
                                  price |-> q.snapshot[2]]]
                /\ Announce(op, q.session, q.user, "ok", tw)
        /\ UNCHANGED <<resetVars, sessReset, authVars, store, store_name,
                       carts, cartItem, orders, review, sessUser, sessCart>>

\* create_product: has_perm, the valid form, Store.objects.get(owner) and
\* the pre-check on the cleaned name
create_product_check(r, s, posted, price) ==
    LET u == sessUser[s]
        name == strip(posted)
    IN  /\ req[r] = Idle
        /\ IF ~has_perm(u) \/ ~store[u]
           THEN /\ last' = Response("create_product", s, u, "-", "error")
                /\ UNCHANGED req
           ELSE IF NameTaken(u, name, "-")
           THEN /\ last' = Response("create_product", s, u, "-", "rejected")
                /\ UNCHANGED req
           ELSE /\ req' = [req EXCEPT ![r] =
                      [CartInFlight(s, u, "-", "create_product_save") EXCEPT
                          !.snapshot = <<name, price>>]]
                /\ UNCHANGED last
        /\ UNCHANGED <<resetVars, sessReset, authVars, tweet_instance, store,
                       store_name, product, carts, cartItem, orders, review,
                       sessUser, sessCart>>

\* create_product: product.save(), then the tweet
create_product_save(r, tw) ==
    /\ req[r].pc = "create_product_save"
    /\ ProductInsert(r, "create_product", tw)

\* add_product: the permission, the store, the valid serializer and the
\* pre-check on the name of request.data
add_product_check(r, u, posted, price) ==
    /\ req[r] = Idle
    /\ IF u = Anonymous
       THEN /\ last' = Response("add_product", "-", u, "-", "401")
            /\ UNCHANGED req
       ELSE IF ~has_perm(u)
       THEN /\ last' = Response("add_product", "-", u, "-", "403")
            /\ UNCHANGED req
       ELSE IF ~store[u]
       THEN /\ last' = Response("add_product", "-", u, "-", "400")
            /\ UNCHANGED req
       ELSE IF NameTaken(u, posted, "-")
       THEN /\ last' = Response("add_product", "-", u, "-", "rejected")
            /\ UNCHANGED req
       ELSE /\ req' = [req EXCEPT ![r] =
                  [CartInFlight("-", u, "-", "add_product_save") EXCEPT
                      !.snapshot = <<strip(posted), price>>]]
            /\ UNCHANGED last
    /\ UNCHANGED <<resetVars, sessReset, authVars, tweet_instance, store,
                   store_name, product, carts, cartItem, orders, review,
                   sessUser, sessCart>>

\* add_product: serializer.save(store=store), then the tweet
add_product_save(r, tw) ==
    /\ req[r].pc = "add_product_save"
    /\ ProductInsert(r, "add_product", tw)

(***************************************************************************)
(* Initial states: the two users are registered and v1 owns a store.       *)
(* InitBase leaves the Product table to the specification.                 *)
(***************************************************************************)
LiveProduct(name, price) ==
    [state |-> "live", store |-> "v1", product_name |-> name, price |-> price]

\* nobody is logged in, no reset token was issued, no request is in flight
\* the users are registered, by register_buyer or register_vendor, and the
\* server process has not built its Tweet client yet
InitAccounts ==
    /\ auth_user = Users
    /\ auth_group = [g \in GroupNames |->
                       [exists |-> TRUE,
                        permissions |-> IF g = "Vendors" THEN VendorPermissions
                                        ELSE {}]]
    /\ tweet_instance = "None"

InitRest ==
    /\ sessUser = [s \in Sessions |-> Anonymous]
    /\ sessCart = [s \in Sessions |-> EmptySessionCart]
    /\ sessReset = [s \in Sessions |-> NoHandshake]
    /\ resetToken = {}
    /\ password = [u \in Users |-> "old"]
    /\ now = 0
    /\ issued = 0
    /\ consumed = {}
    /\ req = [r \in Requests |-> Idle]
    /\ last = NoResponse

InitBase ==
    /\ InitAccounts
    /\ groups = [u \in Users |-> IF u = "b1" THEN {"Buyers"} ELSE {"Vendors"}]
    /\ store = [u \in Users |-> u = "v1"]
    /\ store_name = [u \in Users |-> IF u = "v1" THEN <<"s">> ELSE <<>>]
    /\ carts = {}
    /\ cartItem = NoItems
    /\ orders = <<>>
    /\ review = [u \in Users |-> [p \in ProductIds |-> <<>>]]
    /\ InitRest

\* one product on sale, the other id not yet given to any row
Init ==
    /\ InitBase
    /\ product = [p \in ProductIds |->
                    IF p = "p1" THEN LiveProduct("x", 1) ELSE NoProduct("unborn")]

\* both products on sale, at different prices, and v1 with one unit of p1 in
\* the persisted cart
InitCheckout ==
    /\ InitAccounts
    /\ groups = [u \in Users |-> IF u = "b1" THEN {"Buyers"} ELSE {"Vendors"}]
    /\ store = [u \in Users |-> u = "v1"]
    /\ store_name = [u \in Users |-> IF u = "v1" THEN <<"s">> ELSE <<>>]
    /\ product = [p \in ProductIds |->
                    IF p = "p1" THEN LiveProduct("x", 1) ELSE LiveProduct("y", 2)]
    /\ carts = {"v1"}
    /\ cartItem = [NoItems EXCEPT !["v1"]["p1"] = <<1>>]
    /\ orders = <<>>
    /\ review = [u \in Users |-> [p \in ProductIds |-> <<>>]]
    /\ InitRest

\* both products on sale, at different prices
InitCatalogue ==
    /\ InitBase
    /\ product = [p \in ProductIds |->
                    IF p = "p1" THEN LiveProduct("x", 1) ELSE LiveProduct("y", 2)]

(***************************************************************************)
(* Spec: the shop's handlers, one request at a time.  b1, logged in, adds  *)
(* p1 one unit per request, checks out and reviews; v1 manages its store   *)
(* and the products.  The session cart and the merge are in SpecCart.      *)
(***************************************************************************)
Next ==
    \E s \in Browsers :
        \/ /\ sessUser[s] = "b1"
           /\ add_item_to_cart(s, "p1", "1")
        \/ /\ sessUser[s] = "b1"
           /\ update_cart(s, "remove_item", "p1", Missing)
        \/ login_buyer(s, "b1", TRUE)
        \/ login_vendor(s, "v1", TRUE)
        \/ logout_user(s)
        \/ \E sent \in BOOLEAN : checkout(s, "POST", sent)
        \/ \E pk \in ProductIds :
              /\ sessUser[s] = "b1"
              /\ create_review(s, pk, "POST")
        \/ \E f \in Catalogue :
              /\ sessUser[s] = "v1"
              /\ create_product(s, f[1], f[2], "posted")
        \/ \E pk \in ProductIds, f \in Catalogue :
              /\ sessUser[s] = "v1"
              /\ update_product(s, pk, f[1], f[2])
        \/ \E pk \in ProductIds :
              /\ sessUser[s] = "v1"
              /\ delete_product(s, pk)
        \/ /\ sessUser[s] = "v1"
           /\ create_store(s, "s", "posted")
        \/ /\ sessUser[s] = "v1"
           /\ delete_store(s, "v1")

Spec == Init /\ [][Next]_vars

(***************************************************************************)
(* SpecCart: the two cart representations and the login-time merge, with   *)
(* every POST value.  The vendor's requests are product deletions.         *)
(***************************************************************************)
NextCart ==
    \E s \in Browsers :
        \/ \E item \in CartKeys \cup {Missing}, qv \in PostQuantities :
              /\ sessUser[s] # "v1"
              /\ add_item_to_cart(s, item, qv)
        \/ \E field \in {"remove_item", "update_item", "none"},
              pid \in CartKeys, qv \in PostQuantities :
              /\ sessUser[s] # "v1"
              /\ update_cart(s, field, pid, qv)
        \/ \E u \in {"b1", "v1"}, authenticated \in BOOLEAN :
              login_buyer(s, u, authenticated)
        \/ \E u \in {"b1", "v1"}, authenticated \in BOOLEAN :
              login_vendor(s, u, authenticated)
        \/ logout_user(s)
        \/ \E pk \in ProductIds : delete_product(s, pk)

SpecCart == InitCatalogue /\ [][NextCart]_vars

(***************************************************************************)
(* SpecCheckout: b1's persisted cart and checkout over a fixed catalogue,  *)
(* with every POST value                                                   *)
(***************************************************************************)
NextCheckout ==
    \E s \in Browsers :
        \/ \E item \in ProductIds, qv \in PostQuantities :
              add_item_db_cart(s, item, qv)
        \/ \E pid \in ProductIds : update_db_cart(s, "remove_item", pid, Missing)
        \/ login_buyer(s, "b1", TRUE)
        \/ logout_user(s)
        \/ \E method \in {"GET", "POST"}, sent \in BOOLEAN : checkout(s, method, sent)

SpecCheckout == InitCheckout /\ [][NextCheckout]_vars

(***************************************************************************)
(* SpecQuantity: one product through both carts, the merge and checkout,   *)
(* with every POST value for the quantity                                  *)
(***************************************************************************)
NextQuantity ==
    \E s \in Browsers :
        \/ \E qv \in PostQuantities : add_item_to_cart(s, "p1", qv)
        \/ \E field \in {"remove_item", "update_item"}, qv \in PostQuantities :
              update_cart(s, field, "p1", qv)
        \/ login_buyer(s, "b1", TRUE)
        \/ logout_user(s)
        \/ checkout(s, "POST", TRUE)

SpecQuantity == InitCatalogue /\ [][NextQuantity]_vars

(***************************************************************************)
(* SpecReset: the password reset flow of b1 from two browsers, with the    *)
(* clock                                                                   *)
(***************************************************************************)
NextReset ==
    \/ Tick
    \/ \E s \in Sessions :
          \/ \E method \in {"GET", "POST"}, email \in {"b1", Missing},
                sent \in BOOLEAN :
                send_password_reset(s, method, email, sent)
          \/ \E token \in RawTokens : reset_user_password(s, token)
          \/ \E method \in {"GET", "POST"}, password_conf \in {"new", "typo"} :
                reset_password(s, method, "new", password_conf)

SpecReset == Init /\ [][NextReset]_vars

(***************************************************************************)
(* SpecReview: create_review requests interleaved statement by statement,  *)
(* from two browsers, while the vendor deletes products.  It starts after  *)
(* b1 has ordered one unit of p1, with b1 logged in on s1 and v1 on s2.    *)
(***************************************************************************)
InitReview ==
    /\ InitAccounts
    /\ groups = [u \in Users |-> IF u = "b1" THEN {"Buyers"} ELSE {"Vendors"}]
    /\ store = [u \in Users |-> u = "v1"]
    /\ store_name = [u \in Users |-> IF u = "v1" THEN <<"s">> ELSE <<>>]
    /\ product = [p \in ProductIds |->
                    IF p = "p1" THEN LiveProduct("x", 1) ELSE LiveProduct("y", 2)]
    /\ carts = {"b1"}
    /\ cartItem = NoItems
    /\ orders = <<NewOrder("b1", <<[pid |-> "p1", quantity |-> 1]>>)>>
    /\ review = [u \in Users |-> [p \in ProductIds |-> <<>>]]
    /\ sessUser = [s \in Sessions |-> IF s = "s1" THEN "b1" ELSE "v1"]
    /\ sessCart = [s \in Sessions |-> EmptySessionCart]
    /\ sessReset = [s \in Sessions |-> NoHandshake]
    /\ resetToken = {}
    /\ password = [u \in Users |-> "old"]
    /\ now = 0
    /\ issued = 0
    /\ consumed = {}
    /\ req = [r \in Requests |-> Idle]
    /\ last = NoResponse

NextReview ==
    \/ \E r \in Requests :
          \/ \E s \in Sessions, pk \in ProductIds, method \in {"GET", "POST"} :
                review_get_product(r, s, pk, method)
          \/ review_exists(r)
          \/ review_has_purchased(r)
          \/ review_create(r)
    \/ \E s \in Sessions, pk \in ProductIds :
          /\ sessUser[s] = "v1"
          /\ delete_product(s, pk)

SpecReview == InitReview /\ [][NextReview]_vars

(***************************************************************************)
(* SpecStore: store creation through the web view and the API, interleaved *)
(* statement by statement, while stores are deleted.  v2, who has no       *)
(* store, is logged in on s1 and v1 on s2.                                 *)
(***************************************************************************)
InitStore ==
    /\ InitAccounts
    /\ groups = [u \in Users |-> IF u = "b1" THEN {"Buyers"} ELSE {"Vendors"}]
    /\ store = [u \in Users |-> u = "v1"]
    /\ store_name = [u \in Users |-> IF u = "v1" THEN <<"s">> ELSE <<>>]
    /\ product = [p \in ProductIds |->
                    IF p = "p1" THEN LiveProduct("x", 1) ELSE NoProduct("unborn")]
    /\ carts = {}
    /\ cartItem = NoItems
    /\ orders = <<>>
    /\ review = [u \in Users |-> [p \in ProductIds |-> <<>>]]
    /\ sessUser = [s \in Sessions |-> IF s = "s1" THEN "v2" ELSE "v1"]
    /\ sessCart = [s \in Sessions |-> EmptySessionCart]
    /\ sessReset = [s \in Sessions |-> NoHandshake]
    /\ resetToken = {}
    /\ password = [u \in Users |-> "old"]
    /\ now = 0
    /\ issued = 0
    /\ consumed = {}
    /\ req = [r \in Requests |-> Idle]
    /\ last = NoResponse

NextStore ==
    \/ \E r \in Requests :
          \/ \E s \in Sessions, name \in StoreNames \cup {Missing} :
                create_store_form(r, s, name)
          \/ create_store_save(r, "posted")
          \/ \E u \in Users \cup {Anonymous} : add_store_perm(r, u)
          \/ \E name \in StoreNames \cup {Missing} : add_store_exists(r, name)
          \/ add_store_save(r, "posted")
    \/ \E s \in Sessions, owner \in Users : delete_store(s, owner)

SpecStore == InitStore /\ [][NextStore]_vars

(***************************************************************************)
(* SpecPerm: the store and product endpoints called from one browser by    *)
(* the buyer, the vendor and nobody, and the API called with their         *)
(* credentials                                                             *)
(***************************************************************************)
NextPerm ==
    \/ \E s \in Browsers :
          \/ login_buyer(s, "b1", TRUE)
          \/ login_vendor(s, "v1", TRUE)
          \/ logout_user(s)
          \/ \E name \in StoreNames : create_store(s, name, "posted")
          \/ \E name \in StoreNames : update_store(s, "v1", name)
          \/ delete_store(s, "v1")
          \/ \E f \in Catalogue : create_product(s, f[1], f[2], "posted")
          \/ \E pk \in ProductIds, f \in Catalogue :
                update_product(s, pk, f[1], f[2])
          \/ \E pk \in ProductIds : delete_product(s, pk)
    \/ \E u \in {"b1", "v1", Anonymous} :
          \/ \E f \in Catalogue : add_product(u, f[1], f[2], "posted")
          \/ add_store_perm("r1", u)
    \/ \E name \in StoreNames : add_store_exists("r1", name)
    \/ add_store_save("r1", "posted")

SpecPerm == Init /\ [][NextPerm]_vars

(***************************************************************************)
(* SpecProduct: the product names of two stores, one request at a time.    *)
(* v1 and v2 each own a store and are logged in on s1 and s2.              *)
(***************************************************************************)
InitProduct ==
    /\ InitAccounts
    /\ groups = [u \in Users |-> IF u = "b1" THEN {"Buyers"} ELSE {"Vendors"}]
    /\ store = [u \in Users |-> u \in {"v1", "v2"}]
    /\ store_name = [u \in Users |->
                       IF u = "v1" THEN <<"s">>
                       ELSE IF u = "v2" THEN <<"t">> ELSE <<>>]
    /\ product = [p \in ProductIds |->
                    IF p = "p1" THEN LiveProduct("x", 1) ELSE NoProduct("unborn")]
    /\ carts = {}
    /\ cartItem = NoItems
    /\ orders = <<>>
    /\ review = [u \in Users |-> [p \in ProductIds |-> <<>>]]
    /\ sessUser = [s \in Sessions |-> IF s = "s1" THEN "v1" ELSE "v2"]
    /\ sessCart = [s \in Sessions |-> EmptySessionCart]
    /\ sessReset = [s \in Sessions |-> NoHandshake]
    /\ resetToken = {}
    /\ password = [u \in Users |-> "old"]
    /\ now = 0
    /\ issued = 0
    /\ consumed = {}
    /\ req = [r \in Requests |-> Idle]
    /\ last = NoResponse

NextProduct ==
    \/ \E s \in Sessions, posted \in ProductNames \cup {Padded}, price \in 1 .. 2 :
          \/ create_product(s, posted, price, "posted")
          \/ \E pk \in ProductIds : update_product(s, pk, posted, price)
    \/ \E u \in Users, posted \in ProductNames \cup {Padded}, price \in 1 .. 2 :
          add_product(u, posted, price, "posted")
    \/ \E s \in Sessions, pk \in ProductIds : delete_product(s, pk)

SpecProduct == InitProduct /\ [][NextProduct]_vars

(***************************************************************************)
(* Claims about the cart merge                                             *)
(***************************************************************************)
\* a login request of a Buyers-group user ran merge_cart in this step
MergeRan == last'.op = "login_buyer" /\ last'.status \in {"ok", "error"}

\* what merge_cart is claimed to do with session cart sc of session s for
\* user u
MergeEffect(s, u, sc) ==
    /\ \A p \in ProductIds :
          IF Live(p) /\ sc[p] > 0
          THEN cartItem'[u][p] = <<RowQty(cartItem[u][p]) + sc[p]>>
          ELSE cartItem'[u][p] = cartItem[u][p]
    /\ \A w \in Users \ {u} : cartItem'[w] = cartItem[w]
    /\ sessCart'[s] = EmptySessionCart

\* C1: merge_cart at a Buyers-group user's login adds every session
\* quantity of an existing product to the persisted CartItem of that product
\* (created when absent), creates no row for an id that names no product,
\* changes no other CartItem, and leaves the session cart empty.
C1_MergeCart ==
    [][MergeRan =>
          MergeEffect(last'.session, last'.user,
                      SessionCartAtLogin(last'.session, last'.user))]_vars

\* the same, for session carts whose keys are all UUIDs
C1_MergeCartWellFormed ==
    [][(MergeRan /\ SessionCartAtLogin(last'.session, last'.user)[BadId] = 0) =>
          MergeEffect(last'.session, last'.user,
                      SessionCartAtLogin(last'.session, last'.user))]_vars

(***************************************************************************)
(* Claims about checkout                                                   *)
(***************************************************************************)
RECURSIVE SumSeq(_)
SumSeq(q) == IF q = <<>> THEN 0 ELSE Head(q) + SumSeq(Tail(q))

\* the cart of u, one entry per product: unit price times quantity, 0 when
\* the product is not in the cart
Subtotals(u) ==
    [i \in 1 .. Len(ProductSeq) |->
        product[ProductSeq[i]].price * RowQty(cartItem[u][ProductSeq[i]])]

\* a checkout POST completed in this step
CheckoutSucceeded == last'.op = "checkout" /\ last'.status = "ok"

\* C2: a successful checkout POST creates exactly one Order, whose
\* total_price is the sum of unit price times quantity over the cart lines,
\* and exactly one OrderItem per cart line with the product's name, the
\* line's quantity and price = unit price times quantity; the total equals
\* the sum of the OrderItem prices.
C2_CheckoutOrder ==
    [][CheckoutSucceeded =>
          LET u == last'.user
              o == orders'[Len(orders')]
          IN  /\ Len(orders') = Len(orders) + 1
              /\ SubSeq(orders', 1, Len(orders)) = orders
              /\ o.user = u
              /\ o.total_price = SumSeq(Subtotals(u))
              /\ \A p \in ProductIds :
                    IF cartItem[u][p] = <<>>
                    THEN \A k \in 1 .. Len(o.items) : o.items[k].line # p
                    ELSE \E k \in 1 .. Len(o.items) :
                            /\ o.items[k] =
                                 [product |-> product[p].product_name,
                                  quantity |-> cartItem[u][p][1],
                                  price |-> product[p].price * cartItem[u][p][1],
                                  line |-> p]
                            /\ \A j \in 1 .. Len(o.items) :
                                  o.items[j].line = p => j = k
              /\ o.total_price =
                    SumSeq([k \in 1 .. Len(o.items) |-> o.items[k].price])]_vars

\* a checkout of a cart with two lines, one of them of quantity 2
C2_Witness ==
    /\ last.op = "checkout" /\ last.status = "ok"
    /\ \E i \in 1 .. Len(orders) :
          /\ Len(orders[i].items) = 2
          /\ \E k \in 1 .. 2 : orders[i].items[k].quantity = 2

\* C3: after a checkout POST that completed, the user's persisted cart has
\* no CartItem.
C3_CartEmptyAfterCheckout ==
    (last.op = "checkout" /\ last.status = "ok") =>
        \A p \in ProductIds : cartItem[last.user][p] = <<>>

\* a completed checkout whose order has two items, by a user whose Cart row
\* is still there
C3_Witness ==
    /\ last.op = "checkout" /\ last.status = "ok"
    /\ last.user \in carts
    /\ Len(orders[Len(orders)].items) = 2

\* C4: when sending the invoice email raises, the Order and its OrderItems
\* stay in the database and the CartItems of the cart are not deleted.
C4_EmailFailureKeepsOrder ==
    [][(last'.op = "checkout" /\ last'.status = "email_failed") =>
          /\ Len(orders') = Len(orders) + 1
          /\ SubSeq(orders', 1, Len(orders)) = orders
          /\ orders'[Len(orders')].user = last'.user
          /\ Len(orders'[Len(orders')].items) =
                Cardinality({p \in ProductIds : cartItem[last'.user][p] # <<>>})
          /\ Len(orders'[Len(orders')].items) >= 1
          /\ cartItem' = cartItem]_vars

\* the request failed on the email, the order exists and the cart is full
C4_Witness ==
    /\ last.op = "checkout" /\ last.status = "email_failed"
    /\ orders # <<>> /\ orders[Len(orders)].user = last.user
    /\ \E p \in ProductIds : cartItem[last.user][p] # <<>>

\* C6: a checkout POST by a user whose cart has no items (an empty Cart row
\* or no Cart row) creates no Order and no OrderItem and changes no state.
C6_EmptyCartCheckout ==
    [][(/\ last'.op = "checkout"
        /\ last'.user \in Users
        /\ \A p \in ProductIds : cartItem[last'.user][p] = <<>>) =>
          UNCHANGED <<resetVars, sessReset, req, authVars, tweet_instance, store, store_name, product,
                      carts, cartItem, orders, review, sessUser,
                      sessCart>>]_vars

\* a checkout POST on an empty Cart row was answered with the cart page
C6_Witness ==
    /\ last.op = "checkout" /\ last.status = "empty"
    /\ last.user \in carts
    /\ \A p \in ProductIds : cartItem[last.user][p] = <<>>

(***************************************************************************)
(* Claims about orders and reviews                                         *)
(***************************************************************************)
\* C5: once an Order and its OrderItems exist, no later request changes the
\* Order's total_price or an OrderItem's product name, quantity or price,
\* nor deletes them.
C5_OrdersImmutable ==
    [][\A i \in 1 .. Len(orders) :
          /\ i <= Len(orders')
          /\ orders'[i] = orders[i]]_vars

\* two orders exist and the product of an ordered line has been deleted
C5_Witness ==
    /\ Len(orders) >= 2
    /\ \E i \in 1 .. Len(orders) : \E k \in 1 .. Len(orders[i].items) :
          product[orders[i].items[k].line].state = "deleted"

\* u has an OrderItem that was created from product pk
Ordered(u, pk) ==
    \E i \in 1 .. Len(orders) :
        /\ orders[i].user = u
        /\ \E k \in 1 .. Len(orders[i].items) : orders[i].items[k].line = pk

\* C8: a Review created by create_review has is_verified = true if and
\* only if, at creation, the reviewing user has an OrderItem for the
\* reviewed product, an item that user ordered of that very product.
C8_VerifiedIffOrdered ==
    [][(last'.op = "create_review" /\ last'.status = "created") =>
          review'[last'.user][last'.pid] = <<Ordered(last'.user, last'.pid)>>]_vars

\* C7: in every reachable state, also those reached by interleaved
\* create_review requests, there is at most one Review per (user, product);
\* a create_review request by a user who already reviewed the product
\* creates no row and changes no review, and a POST ends rejected: by the
\* message of the existence check or by the IntegrityError of the INSERT.
C7_OneReviewPerUserProduct ==
    [][/\ \A u \in Users, p \in ProductIds : Len(review'[u][p]) <= 1
       /\ \A r \in Requests :
             (/\ req'[r] # req[r]
              /\ req[r].user \in Users
              /\ review[req[r].user][req[r].pid] # <<>>) =>
                 /\ review' = review
                 /\ req'[r] = Idle =>
                       /\ last'.op = "create_review"
                       /\ last'.status \in
                             IF req[r].method = "POST"
                             THEN {"rejected", "integrity_error"}
                             ELSE {"rejected", "form"}]_vars

\* a request lost the race: its INSERT met the row of the other request
C7_Witness ==
    /\ last.op = "create_review" /\ last.status = "integrity_error"
    /\ Live(last.pid)
    /\ Len(review[last.user][last.pid]) = 1

(***************************************************************************)
(* Claims about the password reset                                         *)
(***************************************************************************)
\* C9: reset_user_password with a raw token whose stored expiry has passed
\* deletes that ResetToken row, reports expired and stages no handshake in
\* the session; with a raw token whose hash matches no row it reports
\* invalid and changes no state.
C9_ExpiredOrUnknownToken ==
    [][last'.op = "reset_user_password" =>
          LET rows == TokenRows(resetToken, last'.pid)
          IN  /\ rows = {} =>
                    /\ last'.status = "invalid"
                    /\ UNCHANGED <<resetVars, sessReset, req, authVars, tweet_instance, store, store_name,
                                   product, carts, cartItem, orders, review,
                                   sessUser, sessCart>>
              /\ \A row \in rows : row.expiry_date < now =>
                    /\ last'.status = "expired"
                    /\ resetToken' = resetToken \ {row}
                    /\ TokenRows(resetToken', last'.pid) = {}
                    /\ UNCHANGED <<password, now, issued, consumed, sessReset,
                                   req, authVars, tweet_instance, store, store_name, product, carts,
                                   cartItem, orders, review, sessUser,
                                   sessCart>>]_vars

\* an expired link was opened: its row is gone, nothing is staged
C9_Witness ==
    /\ last.op = "reset_user_password" /\ last.status = "expired"
    /\ TokenRows(resetToken, last.pid) = {}
    /\ sessReset[last.session] = NoHandshake

\* C10: after reset_password consumes a token with matching password fields
\* the ResetToken row of that token no longer exists and the handshake of
\* the session is cleared; every later reset_user_password call with the
\* same raw token reports invalid.
C10_ConsumedTokenInvalid ==
    [][/\ (last'.op = "reset_password" /\ last'.status = "changed") =>
             /\ last'.pid = sessReset[last'.session].token
             /\ last'.pid \in consumed'
             /\ sessReset'[last'.session] = NoHandshake
       /\ \A token \in consumed' : TokenRows(resetToken', token) = {}
       /\ (last'.op = "reset_user_password" /\ last'.pid \in consumed) =>
             last'.status = "invalid"]_vars

\* a consumed link was opened again before its five minutes had passed
C10_Witness ==
    /\ last.op = "reset_user_password" /\ last.status = "invalid"
    /\ last.pid \in consumed
    /\ now <= ExpiryMinutes

\* C11: a reset token is single use: over any sequence of issue, validate
\* and consume requests from any number of browser sessions, each issued
\* token leads to at most one successful password change, so no
\* reset_password request changes a password with a token already consumed.
C11_TokenSingleUse ==
    [][(last'.op = "reset_password" /\ last'.status = "changed") =>
          last'.pid \notin consumed]_vars

\* C12: a reset token is time-boxed: reset_password changes no password
\* with a token whose expiry time (issue time + 5 minutes) has passed,
\* whatever the order of the validate and consume requests.
C12_TokenTimeBoxed ==
    [][(last'.op = "reset_password" /\ last'.status = "changed") =>
          \A row \in TokenRows(resetToken, last'.pid) :
              ~(row.expiry_date < now)]_vars

(***************************************************************************)
(* Claims about stores and products                                        *)
(***************************************************************************)
\* C13: in every reachable state, also those reached by interleaved
\* store-creation requests through the web view and the API, each user
\* owns at most one Store; a create-store request by an owner who already
\* has a Store creates no row, leaves the existing Store unchanged and ends
\* rejected: by the API's check or by the IntegrityError of the INSERT.
C13_OneStorePerOwner ==
    [][/\ \A u \in Users : Len(store_name'[u]) <= 1
       /\ \A r \in Requests :
             (/\ req'[r] # req[r]
              /\ req[r].user \in Users
              /\ store_name[req[r].user] # <<>>) =>
                 /\ store_name' = store_name
                 /\ store' = store
                 /\ req'[r] = Idle =>
                       last'.status \in {"rejected", "integrity_error"}]_vars

\* a request lost the race: its INSERT met the Store of the other request
C13_Witness ==
    /\ last.op \in {"create_store", "add_store"}
    /\ last.status = "integrity_error"
    /\ last.user = "v2"
    /\ Len(store_name["v2"]) = 1

\* C14: after any sequence of non-overlapping create_product, add_product
\* and update_product requests no two Products of the same Store share a
\* product_name.
C14_UniqueNamesPerStore ==
    \A p, q \in ProductIds :
        (Live(p) /\ Live(q) /\ p # q /\ product[p].store = product[q].store) =>
            product[p].product_name # product[q].product_name

(***************************************************************************)
(* Claims about the cart quantities                                        *)
(***************************************************************************)
\* C15: in either cart representation, adding a product with quantity
\* q >= 1 to a cart that holds it with quantity q1 >= 1 leaves exactly one
\* entry for the product (one session key, one CartItem row in the user's
\* single Cart) with quantity q1 + q; a first add leaves one entry with q.
C15_AddAccumulates ==
    [][\A s \in {last'.session}, item \in {last'.pid} \cap ProductIds,
          q \in 1 .. MaxQty :
          (/\ last'.op = "add_item"
           /\ add_item_to_cart(s, item, ToString(q))
           /\ sessUser[s] # Anonymous => Live(item)) =>
             IF sessUser[s] = Anonymous
             THEN /\ sessCart'[s][item] = sessCart[s][item] + q
                  /\ \A k \in CartKeys \ {item} :
                        sessCart'[s][k] = sessCart[s][k]
             ELSE /\ sessUser[s] \in carts'
                  /\ cartItem'[sessUser[s]][item] =
                        <<RowQty(cartItem[sessUser[s]][item]) + q>>
                  /\ \A p \in ProductIds \ {item} :
                        cartItem'[sessUser[s]][p] = cartItem[sessUser[s]][p]]_vars

\* a second add to the persisted cart: one row holding both quantities
C15_Witness ==
    /\ last.op = "add_item" /\ last.status = "ok"
    /\ last.user \in Users /\ last.pid \in ProductIds
    /\ cartItem[last.user][last.pid] = <<2>>
    /\ \A s \in Sessions : sessCart[s] = EmptySessionCart

\* C16: for an anonymous user an add-to-cart request whose quantity is 0,
\* negative or not an integer, or that names no item, is answered with a
\* client error and leaves the session cart, and everything else,
\* unchanged.
C16_BadAddRejected ==
    [][\A s \in {last'.session}, item \in {last'.pid}, qv \in PostQuantities :
          (/\ last'.op = "add_item"
           /\ sessUser[s] = Anonymous
           /\ \/ item = Missing
              \/ qv = NonNumeric
              \/ IsInt(qv) /\ int(qv) <= 0
           /\ add_item_to_cart(s, item, qv)) =>
             /\ last'.status = "400"
             /\ UNCHANGED <<resetVars, sessReset, req, authVars, tweet_instance, store,
                            store_name, product, carts, cartItem, orders,
                            review, sessUser, sessCart>>]_vars

\* an anonymous add was refused while the session cart held an entry
C16_Witness ==
    /\ last.op = "add_item" /\ last.status = "400" /\ last.user = Anonymous
    /\ last.pid # Missing
    /\ \E k \in CartKeys : sessCart[last.session][k] > 0

\* C17: an update_cart set-quantity request with quantity <= 0 for a
\* product removes that product's entry from the caller's cart (session map
\* for anonymous users, CartItem row for authenticated users) without error
\* and leaves every other entry unchanged; with quantity q > 0 it sets the
\* entry's quantity to exactly q, whatever it was before.  For the persisted
\* cart the product is one that exists.
C17_SetQuantity ==
    [][\A s \in {last'.session}, pid \in {last'.pid} \cap ProductIds,
          q \in IntRange :
          (/\ last'.op = "update_cart"
           /\ update_cart(s, "update_item", pid, ToString(q))
           /\ sessUser[s] # Anonymous => Live(pid)) =>
             /\ last'.status = "ok"
             /\ IF sessUser[s] = Anonymous
                THEN /\ sessCart'[s][pid] = IF q > 0 THEN q ELSE 0
                     /\ \A k \in CartKeys \ {pid} :
                           sessCart'[s][k] = sessCart[s][k]
                     /\ cartItem' = cartItem
                ELSE /\ cartItem'[sessUser[s]][pid] =
                           IF q > 0 THEN <<q>> ELSE <<>>
                     /\ \A p \in ProductIds \ {pid} :
                           cartItem'[sessUser[s]][p] = cartItem[sessUser[s]][p]
                     /\ \A u \in Users \ {sessUser[s]} :
                           cartItem'[u] = cartItem[u]
                     /\ sessCart' = sessCart]_vars

\* the persisted cart holds the product with the quantity 1 that an
\* update set, and another product that the update left alone
C17_Witness ==
    /\ last.op = "update_cart" /\ last.status = "ok"
    /\ last.user \in Users /\ last.pid \in ProductIds
    /\ cartItem[last.user][last.pid] = <<1>>
    /\ \E p \in ProductIds \ {last.pid} : cartItem[last.user][p] = <<2>>

\* C18: in every state reachable through add, update (remove and
\* set-quantity), merge and checkout requests every entry of every session
\* cart and every persisted CartItem has quantity >= 1 (a session key with
\* quantity 0 is an absent key).
C18_QuantitiesPositive ==
    /\ \A s \in Sessions, k \in CartKeys : sessCart[s][k] >= 0
    /\ \A u \in Users, p \in ProductIds :
          \A i \in 1 .. Len(cartItem[u][p]) : cartItem[u][p][i] >= 1

\* after a checkout, b1's persisted cart holds one unit of p1 again
C18_Witness ==
    /\ last.op = "add_item" /\ last.status = "ok" /\ last.user = "b1"
    /\ cartItem["b1"]["p1"] = <<1>>
    /\ orders # <<>>

\* C19: the cart merge happens only for users in the Buyers group: when a
\* user who is not in the Buyers group logs in, no Cart is created, no
\* CartItem changes and the session cart stays as it was.
C19_MergeOnlyForBuyers ==
    [][(/\ last'.op \in {"login_buyer", "login_vendor"}
        /\ last'.status = "ok"
        /\ "Buyers" \notin groups[last'.user]) =>
          /\ carts' = carts
          /\ cartItem' = cartItem
          /\ sessCart' = sessCart]_vars

\* the vendor logged in on a browser whose session cart holds an entry
C19_Witness ==
    /\ last.op = "login_vendor" /\ last.status = "ok"
    /\ sessUser[last.session] = "v1"
    /\ \E k \in CartKeys : sessCart[last.session][k] > 0
    /\ "v1" \notin carts

\* the user holds none of the store and product permissions
LacksPermission(u) == u \notin Users \/ "Vendors" \notin groups[u]

\* C20: a store or product create, update or delete request, through the
\* web views or the API create endpoints, made by a user who lacks the
\* permission performs no mutation: the Stores, the Products and all their
\* fields are unchanged.
C20_NoPermissionNoMutation ==
    [][(/\ last'.op \in {"create_store", "update_store", "delete_store",
                         "create_product", "update_product",
                         "delete_product", "add_store", "add_product"}
        /\ LacksPermission(last'.user)) =>
          UNCHANGED <<store, store_name, product>>]_vars

\* the buyer asked to delete the store of v1: it is still there, with its
\* product
C20_Witness ==
    /\ last.op = "delete_store" /\ last.user = "b1"
    /\ store["v1"] /\ store_name["v1"] # <<>>
    /\ \E p \in ProductIds : Live(p)

\* C30: for an authenticated user an add-to-cart request whose quantity is
\* 0, negative or not an integer is not refused: the quantity is taken as
\* 1, so the CartItem of an existing product is created with quantity 1 or
\* incremented by exactly 1.
C30_BadQuantityCountsAsOne ==
    [][\A s \in {last'.session}, item \in {last'.pid} \cap ProductIds,
          qv \in PostQuantities :
          (/\ last'.op = "add_item"
           /\ sessUser[s] \in Users
           /\ Live(item)
           /\ qv = NonNumeric \/ (IsInt(qv) /\ int(qv) <= 0)
           /\ add_item_to_cart(s, item, qv)) =>
             /\ last'.status = "ok"
             /\ sessUser[s] \in carts'
             /\ cartItem'[sessUser[s]][item] =
                   <<RowQty(cartItem[sessUser[s]][item]) + 1>>]_vars

\* b1's row of p1 went from 1 to 2 in an add; an add with quantity 0 does
\* that
C30_Witness ==
    /\ last.op = "add_item" /\ last.status = "ok" /\ last.user = "b1"
    /\ cartItem["b1"]["p1"] = <<2>>
    /\ orders = <<>>

(***************************************************************************)
(* SpecOwner: two vendors, each with a store, work on the stores and       *)
(* products of both from their own browsers.                               *)
(***************************************************************************)
NextOwner ==
    \E s \in Sessions :
        \/ \E owner \in Users, name \in StoreNames : update_store(s, owner, name)
        \/ \E owner \in Users : delete_store(s, owner)
        \/ \E name \in StoreNames : create_store(s, name, "posted")
        \/ \E f \in Catalogue : create_product(s, f[1], f[2], "posted")
        \/ \E pk \in ProductIds, f \in Catalogue :
              update_product(s, pk, f[1], f[2])
        \/ \E pk \in ProductIds : delete_product(s, pk)

SpecOwner == InitProduct /\ [][NextOwner]_vars

\* C29: update_store, delete_store, update_product and delete_product check
\* the model-level permission and not ownership: a request of a user with
\* the Vendors permissions on an existing Store or Product of another
\* vendor changes or removes it.
C29_OtherVendorsObjectsChanged ==
    [][\A s \in {last'.session} \cap Sessions :
          ~LacksPermission(sessUser[s]) =>
            /\ \A owner \in Users \ {sessUser[s]}, name \in StoreNames :
                  (last'.op = "update_store" /\ store[owner]
                   /\ update_store(s, owner, name)) =>
                     /\ last'.status = "ok"
                     /\ store_name'[owner] = <<name>>
            /\ \A owner \in Users \ {sessUser[s]} :
                  (last'.op = "delete_store" /\ store[owner]
                   /\ delete_store(s, owner)) =>
                     /\ last'.status = "ok"
                     /\ ~store'[owner]
                     /\ \A p \in ProductIds :
                           product[p].store = owner => ~(Live(p))'
            /\ \A pk \in ProductIds, f \in Catalogue :
                  (/\ last'.op = "update_product" /\ Live(pk)
                   /\ product[pk].store # sessUser[s]
                   /\ ~NameTaken(product[pk].store, f[1], pk)
                   /\ update_product(s, pk, f[1], f[2])) =>
                     /\ last'.status = "ok"
                     /\ product'[pk].product_name = f[1]
                     /\ product'[pk].price = f[2]
                     /\ product'[pk].store = product[pk].store
            /\ \A pk \in ProductIds :
                  (/\ last'.op = "delete_product" /\ Live(pk)
                   /\ product[pk].store # sessUser[s]
                   /\ delete_product(s, pk)) =>
                     /\ last'.status = "ok"
                     /\ ~(Live(pk))']_vars

\* v1's store and its product are gone after a delete_store request of v2,
\* whose own store is still there
C29_Witness ==
    /\ last.op = "delete_store" /\ last.status = "ok" /\ last.user = "v2"
    /\ store["v2"] /\ ~store["v1"]
    /\ store_name["v2"] = <<"t">>
    /\ product["p1"].state = "deleted"

(***************************************************************************)
(* SpecHandshake: the reset links of two users, b1 and v1, requested,      *)
(* opened and used from two browsers while the clock runs.  The reset      *)
(* requests are made in turn for b1 and for v1, so the owner of the k-th   *)
(* token is known from k.                                                  *)
(***************************************************************************)
\* the user the k-th reset request is made for
TokenOwner(token) ==
    IF \E k \in 1 .. MaxTokens : token = RawToken(k) /\ k % 2 = 1 THEN "b1"
    ELSE IF \E k \in 1 .. MaxTokens : token = RawToken(k) THEN "v1"
    ELSE "nobody"

NextHandshake ==
    \/ Tick
    \/ \E s \in Sessions :
          \/ \E token \in RawTokens : reset_user_password(s, token)
          \/ \E method \in {"GET", "POST"}, password_conf \in {"new", "typo"} :
                reset_password(s, method, "new", password_conf)
          \/ /\ issued < MaxTokens
             /\ send_password_reset(s, "POST",
                                    TokenOwner(RawToken(issued + 1)), TRUE)

SpecHandshake == Init /\ [][NextHandshake]_vars

\* C28: reset_password changes a password only for the user whose unexpired
\* token was validated by reset_user_password in the same session.  A POST
\* in a session without a staged handshake changes no password and deletes
\* no ResetToken; a handshake is staged only by reset_user_password finding
\* the unexpired row of the token, for the owner of that token; and a
\* password change changes the password of the staged user, the owner of
\* the staged token, and of nobody else.
C28_ResetOnlyAfterHandshake ==
    [][/\ \A s \in Sessions :
            \* a handshake appears in a session only by a validation there
            (sessReset'[s] # sessReset[s] /\ sessReset'[s] # NoHandshake) =>
              /\ last' = Response("reset_user_password", s,
                                  sessReset'[s].user, sessReset'[s].token,
                                  "valid")
              /\ sessReset'[s].user = TokenOwner(sessReset'[s].token)
              /\ \E row \in resetToken :
                    /\ row.token = Sha1(sessReset'[s].token)
                    /\ row.user = sessReset'[s].user
                    /\ row.expiry_date >= now
       /\ \A s \in {last'.session} \cap Sessions :
            last'.op = "reset_password" =>
              IF sessReset[s] = NoHandshake
              THEN /\ last'.status \in {"no_handshake", "form"}
                   /\ password' = password
                   /\ resetToken' = resetToken
                   /\ consumed' = consumed
              ELSE last'.status = "changed" =>
                     /\ sessReset[s] =
                          [user |-> last'.user, token |-> last'.pid]
                     /\ last'.user = TokenOwner(last'.pid)
                     /\ last'.user \in Users
                     /\ password' = [password EXCEPT ![last'.user] = "new"]
       /\ password' # password =>
            last'.op = "reset_password" /\ last'.status = "changed"]_vars

\* v1's password was changed in browser s2 with v1's token while b1's
\* password is the old one and b1's token row is still in the table
C28_Witness ==
    /\ last = Response("reset_password", "s2", "v1", RawToken(2), "changed")
    /\ password["v1"] = "new" /\ password["b1"] = "old"
    /\ \E row \in resetToken : row.user = "b1"
    /\ sessReset["s2"] = NoHandshake

(***************************************************************************)
(* SpecTweet: stores and products created through the web views and the    *)
(* API while the calls of the Tweet client succeed or fail.  v1 and v2     *)
(* each own a store and are logged in on s1 and s2.                        *)
(***************************************************************************)
NextTweet ==
    \/ \E s \in Sessions, tw \in TweetOutcomes :
          \/ \E name \in StoreNames : create_store(s, name, tw)
          \/ \E f \in Catalogue : create_product(s, f[1], f[2], tw)
    \/ \E u \in {"v1", "v2"}, tw \in TweetOutcomes :
          \/ \E f \in Catalogue : add_product(u, f[1], f[2], tw)
          \/ add_store_perm("r1", u)
          \/ add_store_save("r1", tw)
    \/ \E name \in StoreNames : add_store_exists("r1", name)
    \/ \E s \in Sessions : delete_store(s, sessUser[s])

SpecTweet == InitProduct /\ [][NextTweet]_vars

\* C22: a failure of the social-post integration (building and
\* authenticating the client, or the post call) during store or product
\* creation is never propagated: whenever a create request has persisted its
\* Store or Product row, it returns its normal success response.
C22_TweetFailureNotPropagated ==
    [][(/\ last'.op \in {"create_store", "add_store", "create_product",
                         "add_product"}
        /\ \/ store_name' # store_name
           \/ product' # product) =>
          last'.status \in {"ok", "created"}]_vars

(***************************************************************************)
(* SpecRegister: users register as buyers and as vendors, log in and out   *)
(* and open stores from two browsers, starting from empty user and group   *)
(* tables.                                                                 *)
(***************************************************************************)
InitRegister ==
    /\ auth_user = {}
    /\ auth_group = [g \in GroupNames |-> NoGroup]
    /\ groups = [u \in Users |-> {}]
    /\ tweet_instance = "None"
    /\ store = [u \in Users |-> FALSE]
    /\ store_name = [u \in Users |-> <<>>]
    /\ product = [p \in ProductIds |-> NoProduct("unborn")]
    /\ carts = {}
    /\ cartItem = NoItems
    /\ orders = <<>>
    /\ review = [u \in Users |-> [p \in ProductIds |-> <<>>]]
    /\ InitRest

NextRegister ==
    \E s \in Sessions :
        \/ \E method \in {"GET", "POST"}, u \in Users, valid \in BOOLEAN :
              \/ register_buyer(s, method, u, valid)
              \/ register_vendor(s, method, u, valid)
        \/ logout_user(s)
        \/ \E u \in Users :
              \/ login_buyer(s, u, u \in auth_user)
              \/ login_vendor(s, u, u \in auth_user)
        \/ create_store(s, "s", "posted")

SpecRegister == InitRegister /\ [][NextRegister]_vars

\* the permissions user u holds through its groups
GroupPermissions(u) == UNION {auth_group[g].permissions : g \in groups[u]}

\* every registered user is in exactly one of Buyers and Vendors; the
\* members of Vendors hold the eight permissions, the members of Buyers none
OneGroupEach ==
    /\ \A u \in Users \ auth_user : groups[u] = {}
    /\ \A u \in auth_user :
          /\ groups[u] \in {{"Buyers"}, {"Vendors"}}
          /\ auth_group[CHOOSE g \in groups[u] : TRUE].exists
          /\ GroupPermissions(u) =
                IF groups[u] = {"Vendors"} THEN VendorPermissions ELSE {}

\* C21: after any sequence of register_buyer and register_vendor requests
\* every registered user belongs to exactly one of the groups Vendors and
\* Buyers, the one of the request that registered it; the Vendors group is
\* granted the eight store/product permissions exactly once, by the vendor
\* registration that creates the group, so every vendor-registered user
\* holds all eight and no buyer-registered user holds any.
C21_RegisteredGroups ==
    [][/\ OneGroupEach'
       /\ \A u \in auth_user : groups'[u] = groups[u]
       /\ \A u \in auth_user' \ auth_user :
             /\ last'.op \in {"register_buyer", "register_vendor"}
             /\ last'.user = u
             /\ groups'[u] = IF last'.op = "register_vendor"
                             THEN {"Vendors"} ELSE {"Buyers"}
       /\ auth_group' # auth_group => auth_user' # auth_user
       /\ \A g \in GroupNames :
             auth_group'[g].permissions # auth_group[g].permissions =>
               /\ g = "Vendors" /\ ~auth_group[g].exists
               /\ last'.op = "register_vendor"
               /\ auth_group'[g].permissions = VendorPermissions]_vars

\* the second vendor has just registered, after a buyer and a first vendor
C21_Witness ==
    /\ last.op = "register_vendor" /\ last.user = "v2" /\ last.status = "ok"
    /\ auth_user = Users
    /\ groups = [u \in Users |-> IF u = "b1" THEN {"Buyers"} ELSE {"Vendors"}]
    /\ auth_group["Vendors"].permissions = VendorPermissions
    /\ auth_group["Buyers"].permissions = {}

(***************************************************************************)
(* SpecAddRace: b1, logged in on two browsers with one unit of p1 in the   *)
(* persisted cart, adds p1 to the cart in interleaved requests, sets its    *)
(* quantity, and logs out and in again on the second browser with p1 in    *)
(* the session cart.                                                       *)
(***************************************************************************)
InitRace ==
    /\ InitAccounts
    /\ groups = [u \in Users |-> IF u = "b1" THEN {"Buyers"} ELSE {"Vendors"}]
    /\ store = [u \in Users |-> u = "v1"]
    /\ store_name = [u \in Users |-> IF u = "v1" THEN <<"s">> ELSE <<>>]
    /\ product = [p \in ProductIds |->
                    IF p = "p1" THEN LiveProduct("x", 1) ELSE LiveProduct("y", 2)]
    /\ carts = {"b1"}
    /\ cartItem = [NoItems EXCEPT !["b1"]["p1"] = <<1>>]
    /\ orders = <<>>
    /\ review = [u \in Users |-> [p \in ProductIds |-> <<>>]]
    /\ sessUser = [s \in Sessions |-> "b1"]
    /\ sessCart = [s \in Sessions |-> EmptySessionCart]
    /\ sessReset = [s \in Sessions |-> NoHandshake]
    /\ resetToken = {}
    /\ password = [u \in Users |-> "old"]
    /\ now = 0
    /\ issued = 0
    /\ consumed = {}
    /\ req = [r \in Requests |-> Idle]
    /\ last = NoResponse

NextAddRace ==
    \/ \E r \in Requests :
          \/ \E s \in Sessions : add_db_cart_begin(r, s, "p1", "1")
          \/ add_db_cart_get(r)
          \/ add_db_cart_create(r)
          \/ add_db_cart_save(r)
    \/ \E s \in Sessions :
          \/ update_cart(s, "remove_item", "p1", Missing)
          \/ \E qv \in {"0", "1"} : update_cart(s, "update_item", "p1", qv)
    \/ \E s \in Sessions \ Browsers :
          \/ add_item_session_cart(s, "p1", "1")
          \/ login_buyer(s, "b1", TRUE)
          \/ logout_user(s)

SpecAddRace == InitRace /\ [][NextAddRace]_vars

\* C24: an add-to-cart request that found the CartItem writes the quantity
\* it read plus its own quantity, whatever the row holds by then: when
\* another add of the same user and product wrote in between, that
\* increment is lost and the final quantity is less than q0 + q1 + q2.
C24_LostIncrement ==
    [][\A r \in Requests :
          (/\ req[r].pc = "add_save" /\ req'[r] = Idle
           /\ last'.status = "ok") =>
             cartItem'[req[r].user][req[r].pid][1] =
                req[r].snapshot[1] + req[r].quantity]_vars

\* q0 = 1: both requests read 1; r1's add has written 1 + 1 and r2 still
\* holds the 1 it read, to which it will add its own quantity
C24_Witness ==
    /\ req["r2"].pc = "add_save" /\ req["r2"].pid = "p1"
    /\ req["r2"].snapshot = <<1>> /\ req["r2"].quantity = 1
    /\ req["r1"] = Idle
    /\ last = Response("add_item", "s1", "b1", "p1", "ok")
    /\ cartItem["b1"]["p1"] = <<2>>

\* C25: in every reachable state, also under interleaved add, set-quantity
\* and merge requests of one user, there is at most one CartItem row per
\* (cart, product) pair.
C25_OneRowPerCartProduct ==
    \A u \in Users, p \in ProductIds : Len(cartItem[u][p]) <= 1

(***************************************************************************)
(* SpecCheckoutRace: b1, logged in on two browsers with one unit of p1 in  *)
(* the persisted cart, checks out on the first while a request of the      *)
(* second adds p1 to the cart or removes it.                               *)
(***************************************************************************)
NextCheckoutRace ==
    \/ \E method \in {"GET", "POST"} : checkout_read("r1", "s1", method)
    \/ add_db_cart_begin("r2", "s2", "p1", "1")
    \/ update_db_cart("s2", "remove_item", "p1", Missing)
    \/ \E r \in Requests :
          \/ checkout_exists(r)
          \/ checkout_order(r)
          \/ checkout_items(r)
          \/ \E sent \in BOOLEAN : checkout_email(r, sent)
          \/ checkout_delete(r)
          \/ add_db_cart_get(r)
          \/ add_db_cart_create(r)
          \/ add_db_cart_save(r)

SpecCheckoutRace == InitRace /\ [][NextCheckoutRace]_vars

\* the OrderItems of order o are still being created by a checkout request
ItemsToCome(o) ==
    \E r \in Requests :
        /\ req[r].pc = "checkout_items" /\ req[r].order = o
        /\ req[r].snapshot # <<>>

\* C26: in every reachable state, also when a checkout POST interleaves
\* with cart requests of the same user, every Order has at least one
\* OrderItem (an Order whose checkout request has not yet reached the end
\* of its OrderItem loop is left aside).
C26_OrdersHaveItems ==
    \A o \in 1 .. Len(orders) : orders[o].items # <<>> \/ ItemsToCome(o)

\* C27: when a checkout POST interleaves with add-to-cart or set-quantity
\* requests of the same user, every CartItem row that checkout's cart
\* clearing deletes, with every unit of its quantity, is represented by an
\* OrderItem of the Order that checkout created.
C27_DeletedRowsWereOrdered ==
    [][\A r \in Requests :
          (req[r].pc = "checkout_delete" /\ req'[r] = Idle) =>
            \A p \in ProductIds :
              \A k \in 1 .. Len(cartItem[req[r].user][p]) :
                \E j \in 1 .. Len(orders[req[r].order].items) :
                  /\ orders[req[r].order].items[j].line = p
                  /\ orders[req[r].order].items[j].quantity >=
                        cartItem[req[r].user][p][k]]_vars

(***************************************************************************)
(* SpecCreateRace: v1 and v2 each own a store with no product yet and are  *)
(* logged in on s1 and s2; create requests of the web view and of the API  *)
(* run interleaved.                                                        *)
(***************************************************************************)
InitCreateRace ==
    /\ InitAccounts
    /\ groups = [u \in Users |-> IF u = "b1" THEN {"Buyers"} ELSE {"Vendors"}]
    /\ store = [u \in Users |-> u \in {"v1", "v2"}]
    /\ store_name = [u \in Users |->
                       IF u = "v1" THEN <<"s">>
                       ELSE IF u = "v2" THEN <<"t">> ELSE <<>>]
    /\ product = [p \in ProductIds |-> NoProduct("unborn")]
    /\ carts = {}
    /\ cartItem = NoItems
    /\ orders = <<>>
    /\ review = [u \in Users |-> [p \in ProductIds |-> <<>>]]
    /\ sessUser = [s \in Sessions |-> IF s = "s1" THEN "v1" ELSE "v2"]
    /\ sessCart = [s \in Sessions |-> EmptySessionCart]
    /\ sessReset = [s \in Sessions |-> NoHandshake]
    /\ resetToken = {}
    /\ password = [u \in Users |-> "old"]
    /\ now = 0
    /\ issued = 0
    /\ consumed = {}
    /\ req = [r \in Requests |-> Idle]
    /\ last = NoResponse

NextCreateRace ==
    \E r \in Requests :
        \/ \E s \in Sessions, f \in Catalogue :
              create_product_check(r, s, f[1], f[2])
        \/ \E u \in {"v1", "v2"}, f \in Catalogue :
              add_product_check(r, u, f[1], f[2])
        \/ create_product_save(r, "posted")
        \/ add_product_save(r, "posted")

SpecCreateRace == InitCreateRace /\ [][NextCreateRace]_vars

\* C23: a create-product request that has passed the existence pre-check
\* writes its Product whether or not another request has written the same
\* product_name to the same store since: with two such requests
\* interleaved, both pass the pre-check before either writes, and the
\* store ends with two Products of the same name.
C23_PreCheckThenWrite ==
    [][\A r \in Requests :
          (/\ req[r].pc \in {"create_product_save", "add_product_save"}
           /\ req'[r] = Idle
           /\ store[req[r].user]) =>
             /\ last'.status = "ok"
             /\ \E pk \in ProductIds :
                   /\ product[pk].state = "unborn"
                   /\ product'[pk] =
                         [state |-> "live", store |-> req[r].user,
                          product_name |-> req[r].snapshot[1],
                          price |-> req[r].snapshot[2]]]_vars

\* two create_product requests of v1 for the name "x" have both been
\* answered: v1's store has two Products named "x"
C23_Witness ==
    /\ \A p \in ProductIds :
          /\ Live(p) /\ product[p].store = "v1"
          /\ product[p].product_name = "x"
    /\ last = Response("create_product", "s1", "v1", "-", "ok")
    /\ \A r \in Requests : req[r] = Idle

====
